---- MODULE Spec2Model ----
(***************************************************************************)
(* Choixe, the configuration mini-language of pipelime: a raw structure    *)
(* (mappings, sequences, scalars) is parsed into an AST of directive nodes *)
(* and the AST is processed against a context, without branching           *)
(* (process) or with branching over sweeps (process_all).                  *)
(*                                                                         *)
(* Strings are sequences of one-character strings, so that the directive   *)
(* scanner and the argument parser work on the text itself.                *)
(***************************************************************************)
EXTENDS Integers, Sequences, FiniteSets, TLC

(***************************************************************************)
(* Bounds of the model.                                                    *)
(***************************************************************************)
MaxArity == 2
MaxWidth == 2
MaxFiles == 2
MaxCalls == 2
MaxBuilds == 2

(***************************************************************************)
(* Characters.                                                             *)
(***************************************************************************)
LowerChars ==
  {"a","b","c","d","e","f","g","h","i","j","k","l","m",
   "n","o","p","q","r","s","t","u","v","w","x","y","z"}
UpperChars ==
  {"A","B","C","D","E","F","G","H","I","J","K","L","M",
   "N","O","P","Q","R","S","T","U","V","W","X","Y","Z"}
DigitChars == {"0","1","2","3","4","5","6","7","8","9"}
IdChars == LowerChars \cup UpperChars \cup DigitChars \cup {"_"}

DigitVal(c) ==
  CASE c = "0" -> 0 [] c = "1" -> 1 [] c = "2" -> 2 [] c = "3" -> 3
    [] c = "4" -> 4 [] c = "5" -> 5 [] c = "6" -> 6 [] c = "7" -> 7
    [] c = "8" -> 8 [] c = "9" -> 9

UpperOf(c) ==
  CASE c = "a" -> "A" [] c = "b" -> "B" [] c = "c" -> "C" [] c = "d" -> "D"
    [] c = "e" -> "E" [] c = "f" -> "F" [] c = "g" -> "G" [] c = "h" -> "H"
    [] c = "i" -> "I" [] c = "j" -> "J" [] c = "k" -> "K" [] c = "l" -> "L"
    [] c = "m" -> "M" [] c = "n" -> "N" [] c = "o" -> "O" [] c = "p" -> "P"
    [] c = "q" -> "Q" [] c = "r" -> "R" [] c = "s" -> "S" [] c = "t" -> "T"
    [] c = "u" -> "U" [] c = "v" -> "V" [] c = "w" -> "W" [] c = "x" -> "X"
    [] c = "y" -> "Y" [] c = "z" -> "Z" [] OTHER -> c

Upper(s) == [i \in 1..Len(s) |-> UpperOf(s[i])]

(***************************************************************************)
(* Values of the raw structure and of the results: every value is a record *)
(* with a tag t and a payload v.  A mapping is an ordered sequence of      *)
(* <<key, value>> pairs (insertion order), a key being a value itself.     *)
(***************************************************************************)
Null == [t |-> "null", v |-> 0]
IntV(i) == [t |-> "int", v |-> i]
BoolV(b) == [t |-> "bool", v |-> b]
StrV(s) == [t |-> "str", v |-> s]
ListV(s) == [t |-> "list", v |-> s]
DictV(s) == [t |-> "dict", v |-> s]

\* Position of key k in the pair sequence d, 0 if absent.
RECURSIVE KeyIndexFrom(_, _, _)
KeyIndexFrom(d, k, i) ==
  IF i > Len(d) THEN 0
  ELSE IF d[i][1] = k THEN i
  ELSE KeyIndexFrom(d, k, i + 1)

KeyIndex(d, k) == KeyIndexFrom(d, k, 1)

\* A mapping that puts a new key first instead of last.
DictSetFront(d, k, x) ==
  LET i == KeyIndexFrom(d, k, 1)
  IN IF i = 0 THEN <<(<<k, x>>)>> \o d
     ELSE [d EXCEPT ![i] = <<k, x>>]

\* d[k] = x of a python dict: an existing key keeps its position.
DictSet(d, k, x) ==
  LET i == KeyIndex(d, k)
  IN IF i = 0 THEN Append(d, <<k, x>>)
     ELSE [d EXCEPT ![i] = <<k, x>>]

\* d.update(e)
RECURSIVE DictUpdate(_, _)
DictUpdate(d, e) ==
  IF e = <<>> THEN d
  ELSE DictUpdate(DictSet(d, e[1][1], e[1][2]), Tail(e))

(***************************************************************************)
(* Splitting and trimming of character sequences.                          *)
(***************************************************************************)
\* First index >= i of character c in s, 0 if there is none.
RECURSIVE IndexOf(_, _, _)
IndexOf(s, c, i) ==
  IF i > Len(s) THEN 0
  ELSE IF s[i] = c THEN i
  ELSE IndexOf(s, c, i + 1)

RECURSIVE Split(_, _)
Split(s, c) ==
  LET i == IndexOf(s, c, 1)
  IN IF i = 0 THEN <<s>>
     ELSE <<SubSeq(s, 1, i - 1)>> \o Split(SubSeq(s, i + 1, Len(s)), c)

RECURSIVE Strip(_)
Strip(s) ==
  IF s = <<>> THEN s
  ELSE IF s[1] = " " THEN Strip(Tail(s))
  ELSE IF s[Len(s)] = " " THEN Strip(SubSeq(s, 1, Len(s) - 1))
  ELSE s

RECURSIVE Concat(_)
Concat(ss) == IF ss = <<>> THEN <<>> ELSE ss[1] \o Concat(Tail(ss))


(***************************************************************************)
(* The directive names and the keywords of the argument grammar.           *)
(***************************************************************************)
N_var == <<"v","a","r">>
N_import == <<"i","m","p","o","r","t">>
N_sweep == <<"s","w","e","e","p">>
N_symbol == <<"s","y","m","b","o","l">>
N_call == <<"c","a","l","l">>
N_model == <<"m","o","d","e","l">>
N_for == <<"f","o","r">>
N_switch == <<"s","w","i","t","c","h">>
N_item == <<"i","t","e","m">>
N_index == <<"i","n","d","e","x">>
N_uuid == <<"u","u","i","d">>
N_date == <<"d","a","t","e">>
N_cmd == <<"c","m","d">>
N_tmp == <<"t","m","p">>
N_rand == <<"r","a","n","d">>
DirectiveNames ==
  {N_var, N_import, N_sweep, N_symbol, N_call, N_model, N_for, N_switch, N_item, N_index, N_uuid, N_date, N_cmd, N_tmp, N_rand}
K_default == <<"d","e","f","a","u","l","t">>
K_env == <<"e","n","v">>
K_help == <<"h","e","l","p">>
K_True == <<"T","r","u","e">>
K_False == <<"F","a","l","s","e">>
K_None == <<"N","o","n","e">>
D_directive == <<"$","d","i","r","e","c","t","i","v","e">>
D_args == <<"$","a","r","g","s">>
D_kwargs == <<"$","k","w","a","r","g","s">>
D_case == <<"$","c","a","s","e">>
D_then == <<"$","t","h","e","n">>
D_dflt == <<"$","d","e","f","a","u","l","t">>
D_call == <<"$","c","a","l","l">>
D_model == <<"$","m","o","d","e","l">>

(***************************************************************************)
(* The scanner: it splits a string into plain text and directive tokens,   *)
(* a directive being "$" and a directive name, alone (compact form) or     *)
(* followed by one pair of parentheses holding the arguments (call form).  *)
(***************************************************************************)
TextTok(s) == [k |-> "text", name |-> <<>>, args |-> s, call |-> FALSE]
DirTok(name, args, call) == [k |-> "dir", name |-> name, args |-> args, call |-> call]
ErrTok == [k |-> "error", name |-> <<>>, args |-> <<>>, call |-> FALSE]

\* Index following the identifier that starts at i.
RECURSIVE IdEnd(_, _)
IdEnd(s, i) ==
  IF i > Len(s) THEN i
  ELSE IF s[i] \in IdChars THEN IdEnd(s, i + 1)
  ELSE i

\* First index >= i of a parenthesis of either kind, 0 if there is none.
RECURSIVE ParenIdx(_, _)
ParenIdx(s, i) ==
  IF i > Len(s) THEN 0
  ELSE IF s[i] \in {"(", ")"} THEN i
  ELSE ParenIdx(s, i + 1)

\* The text between the directives is lost.
FlushNone(text) == <<>>

\* The text read so far, as a token.
Flush(text) == IF text = <<>> THEN <<>> ELSE <<TextTok(text)>>

\* A scanner that ends the call form at the first closing parenthesis.
RECURSIVE ScanFromClose(_, _, _)
ScanFromClose(s, i, text) ==
  IF i > Len(s) THEN Flush(text)
  ELSE IF s[i] # "$" THEN ScanFromClose(s, i + 1, Append(text, s[i]))
  ELSE
    LET q == IdEnd(s, i + 1)
        name == SubSeq(s, i + 1, q - 1)
    IN IF name \notin DirectiveNames
       THEN ScanFromClose(s, i + 1, Append(text, "$"))
       ELSE IF q <= Len(s) /\ s[q] = "("
       THEN LET c == IndexOf(s, ")", q + 1)
            IN IF c = 0
               THEN <<ErrTok>>
               ELSE Flush(text)
                    \o <<DirTok(name, SubSeq(s, q + 1, c - 1), TRUE)>>
                    \o ScanFromClose(s, c + 1, <<>>)
       ELSE Flush(text) \o <<DirTok(name, <<>>, FALSE)>> \o ScanFromClose(s, q, <<>>)

\* A scanner that takes a word for a directive when it begins with the
\* name of one: $indexes is $index and the text es.
RECURSIVE ScanFromPrefix(_, _, _)
ScanFromPrefix(s, i, text) ==
  IF i > Len(s) THEN Flush(text)
  ELSE IF s[i] # "$" THEN ScanFromPrefix(s, i + 1, Append(text, s[i]))
  ELSE
    LET word == SubSeq(s, i + 1, IdEnd(s, i + 1) - 1)
        names == {n \in DirectiveNames :
                    Len(word) >= Len(n) /\ SubSeq(word, 1, Len(n)) = n}
        name == CHOOSE n \in names : \A m \in names : Len(m) <= Len(n)
        q == i + 1 + Len(name)
    IN IF names = {}
       THEN ScanFromPrefix(s, i + 1, Append(text, "$"))
       ELSE IF q <= Len(s) /\ s[q] = "("
       THEN LET c == ParenIdx(s, q + 1)
            IN IF c = 0 \/ s[c] = "("
               THEN <<ErrTok>>
               ELSE Flush(text)
                    \o <<DirTok(name, SubSeq(s, q + 1, c - 1), TRUE)>>
                    \o ScanFromPrefix(s, c + 1, <<>>)
       ELSE Flush(text) \o <<DirTok(name, <<>>, FALSE)>> \o ScanFromPrefix(s, q, <<>>)

RECURSIVE ScanFrom(_, _, _)
ScanFrom(s, i, text) ==
  IF i > Len(s) THEN Flush(text)
  ELSE IF s[i] # "$" THEN ScanFrom(s, i + 1, Append(text, s[i]))
  ELSE
    LET q == IdEnd(s, i + 1)
        name == SubSeq(s, i + 1, q - 1)
    IN IF name \notin DirectiveNames
       THEN ScanFrom(s, i + 1, Append(text, "$"))
       ELSE IF q <= Len(s) /\ s[q] = "("
       THEN LET c == ParenIdx(s, q + 1)
            IN IF c = 0 \/ s[c] = "("
               THEN <<ErrTok>>
               ELSE Flush(text)
                    \o <<DirTok(name, SubSeq(s, q + 1, c - 1), TRUE)>>
                    \o ScanFrom(s, c + 1, <<>>)
       ELSE Flush(text) \o <<DirTok(name, <<>>, FALSE)>> \o ScanFrom(s, q, <<>>)

Scan(s) == ScanFrom(s, 1, <<>>)

HasErrTok(toks) == \E i \in 1..Len(toks) : toks[i].k = "error"

(***************************************************************************)
(* The argument parser of the call form: comma separated positional and    *)
(* keyword arguments, each an integer, True, False, None, a quoted string  *)
(* or a bare word (a string).                                              *)
(***************************************************************************)
RECURSIVE ParseInt(_, _)
ParseInt(s, acc) ==
  IF s = <<>> THEN acc ELSE ParseInt(Tail(s), 10 * acc + DigitVal(s[1]))

IsInt(s) == s # <<>> /\ \A i \in 1..Len(s) : s[i] \in DigitChars

IsQuoted(s) ==
  /\ Len(s) >= 2
  /\ s[1] \in {"'", "\""}
  /\ s[Len(s)] = s[1]

ParseValue(s0) ==
  LET s == Strip(s0)
  IN IF IsInt(s) THEN IntV(ParseInt(s, 0))
     ELSE IF s = K_True THEN BoolV(TRUE)
     ELSE IF s = K_False THEN BoolV(FALSE)
     ELSE IF s = K_None THEN Null
     ELSE IF IsQuoted(s) THEN StrV(SubSeq(s, 2, Len(s) - 1))
     ELSE StrV(s)

\* The pieces between the commas, blank pieces dropped.
ArgPieces(s) == SelectSeq(Split(s, ","), LAMBDA p : Strip(p) # <<>>)

IsKwarg(p) == IndexOf(p, "=", 1) > 0

KwName(p) == Strip(SubSeq(p, 1, IndexOf(p, "=", 1) - 1))
KwValue(p) == ParseValue(SubSeq(p, IndexOf(p, "=", 1) + 1, Len(p)))

\* The positional arguments, in order.
RECURSIVE PosArgs(_)
PosArgs(ps) ==
  IF ps = <<>> THEN <<>>
  ELSE IF IsKwarg(ps[1]) THEN PosArgs(Tail(ps))
  ELSE <<ParseValue(ps[1])>> \o PosArgs(Tail(ps))

\* The keyword arguments, a pair sequence <<name, value>>.
RECURSIVE KwArgs(_)
KwArgs(ps) ==
  IF ps = <<>> THEN <<>>
  ELSE LET rest == KwArgs(SubSeq(ps, 1, Len(ps) - 1))
           last == ps[Len(ps)]
       IN IF IsKwarg(last) THEN DictSet(rest, KwName(last), KwValue(last))
          ELSE rest

(***************************************************************************)
(* The nodes of the AST.                                                   *)
(***************************************************************************)
NoNode == [n |-> "None"]
ErrorNode == [n |-> "SyntaxError"]
LiteralNode(data) == [n |-> "Literal", data |-> data]
DictNode(nodes) == [n |-> "Dict", nodes |-> nodes]
ListNode(nodes) == [n |-> "List", nodes |-> nodes]
StrBundleNode(nodes) == [n |-> "StrBundle", nodes |-> nodes]
DictBundleNode(nodes) == [n |-> "DictBundle", nodes |-> nodes]
VarNode(identifier, default, env) ==
  [n |-> "Var", identifier |-> identifier, default |-> default, env |-> env]
ImportNode(path) == [n |-> "Import", path |-> path]
SweepNode(cases) == [n |-> "Sweep", cases |-> cases]
SwitchNode(value, cases, default) ==
  [n |-> "Switch", value |-> value, cases |-> cases, default |-> default]
ForNode(iterable, identifier, body) ==
  [n |-> "For", iterable |-> iterable, identifier |-> identifier, body |-> body]
ItemNode(identifier) == [n |-> "Item", identifier |-> identifier]
IndexNode(identifier) == [n |-> "Index", identifier |-> identifier]
UtilNode(name, args) == [n |-> "Util", name |-> name, args |-> args]

IsErr(node) == node.n = "SyntaxError"
AnyErr(nodes) == \E i \in 1..Len(nodes) : IsErr(nodes[i])

\* The value of key k in the pair sequence d, or the fallback.
Lookup(d, k, fallback) ==
  IF KeyIndex(d, k) = 0 THEN fallback ELSE d[KeyIndex(d, k)][2]

ArgOr(args, i, fallback) == IF Len(args) >= i THEN args[i] ELSE fallback

(***************************************************************************)
(* A directive from its name, its positional arguments (nodes) and its     *)
(* keyword arguments (pairs <<name, node>>): the call form and the         *)
(* extended form end here.  for and switch have only the key-value form,   *)
(* call and model only the special form.                                   *)
(***************************************************************************)
MakeDirective(name, args, kwargs) ==
  IF AnyErr(args) \/ \E i \in 1..Len(kwargs) : IsErr(kwargs[i][2]) THEN ErrorNode
  ELSE IF name = N_var THEN
    IF Len(args) = 0 THEN ErrorNode
    ELSE VarNode(args[1],
                 ArgOr(args, 2, Lookup(kwargs, K_default, NoNode)),
                 ArgOr(args, 3, Lookup(kwargs, K_env, NoNode)))
  ELSE IF name = N_import THEN
    IF Len(args) # 1 THEN ErrorNode ELSE ImportNode(args[1])
  ELSE IF name = N_sweep THEN SweepNode(args)
  ELSE IF name = N_item THEN ItemNode(ArgOr(args, 1, NoNode))
  ELSE IF name = N_index THEN IndexNode(ArgOr(args, 1, NoNode))
  ELSE IF name \in {N_uuid, N_date, N_cmd, N_tmp, N_rand, N_symbol}
  THEN UtilNode(name, args)
  ELSE ErrorNode

Literals(vals) == [i \in 1..Len(vals) |-> LiteralNode(vals[i])]
LiteralPairs(d) == [i \in 1..Len(d) |-> <<d[i][1], LiteralNode(d[i][2])>>]

\* A directive token of a string, in compact or call form.
ParseToken(tok) ==
  IF tok.k = "text" THEN LiteralNode(StrV(tok.args))
  ELSE MakeDirective(tok.name,
                     Literals(PosArgs(ArgPieces(tok.args))),
                     LiteralPairs(KwArgs(ArgPieces(tok.args))))

\* A string with a directive is always a bundle, a single directive too.
ParseStrAll(s) ==
  LET toks == Scan(s)
      nodes == [i \in 1..Len(toks) |-> ParseToken(toks[i])]
  IN IF HasErrTok(toks) THEN ErrorNode
     ELSE IF Len(toks) = 0 THEN LiteralNode(StrV(s))
     ELSE IF AnyErr(nodes) THEN ErrorNode
     ELSE IF Len(toks) = 1 /\ toks[1].k = "text" THEN nodes[1]
     ELSE StrBundleNode(nodes)

\* A string: a literal, a single directive, or a bundle of both.
ParseStr(s) ==
  LET toks == Scan(s)
      nodes == [i \in 1..Len(toks) |-> ParseToken(toks[i])]
  IN IF HasErrTok(toks) THEN ErrorNode
     ELSE IF Len(toks) = 0 THEN LiteralNode(StrV(s))
     ELSE IF AnyErr(nodes) THEN ErrorNode
     ELSE IF Len(toks) = 1 THEN nodes[1]
     ELSE StrBundleNode(nodes)

(***************************************************************************)
(* The parser: raw structure to AST.  A mapping is tried as a bundle of    *)
(* key-value forms ($for, $switch keys), then as an extended form          *)
(* ($directive, $args, $kwargs), then as a special form ($call or $model   *)
(* with $args); otherwise it is a plain dictionary.                        *)
(***************************************************************************)
\* The key-value directive token of a mapping key, or ErrTok if it is none.
KeyToken(key) ==
  IF key.t # "str" THEN ErrTok
  ELSE LET toks == Scan(key.v)
       IN IF Len(toks) = 1 /\ toks[1].k = "dir" /\ toks[1].name \in {N_for, N_switch}
          THEN toks[1]
          ELSE ErrTok

IsKeyValueForm(key) == KeyToken(key).k = "dir"

IsSwitchCase(c) ==
  /\ c.t = "dict"
  /\ Len(c.v) = 2
  /\ KeyIndex(c.v, StrV(D_case)) > 0
  /\ KeyIndex(c.v, StrV(D_then)) > 0

IsSwitchDefault(c) ==
  /\ c.t = "dict"
  /\ Len(c.v) = 1
  /\ KeyIndex(c.v, StrV(D_dflt)) > 0

RECURSIVE Build(_)

\* The <<case values, body>> entries of a switch, in source order.
RECURSIVE SwitchCases(_)
SwitchCases(cs) ==
  IF cs = <<>> THEN <<>>
  ELSE IF IsSwitchCase(cs[1])
  THEN LET c == Lookup(cs[1].v, StrV(D_case), Null)
           alts == IF c.t = "list" THEN c.v ELSE <<c>>
           values == [i \in 1..Len(alts) |-> Build(alts[i])]
           body == Build(Lookup(cs[1].v, StrV(D_then), Null))
       IN <<(<<values, body>>)>> \o SwitchCases(Tail(cs))
  ELSE SwitchCases(Tail(cs))

\* The body of the $default entry of a switch, NoNode if there is none.
RECURSIVE SwitchDefault(_)
SwitchDefault(cs) ==
  IF cs = <<>> THEN NoNode
  ELSE IF IsSwitchDefault(cs[1]) THEN Build(Lookup(cs[1].v, StrV(D_dflt), Null))
  ELSE SwitchDefault(Tail(cs))

\* One key-value form: the directive of the key applied to the raw value.
ParseKeyValue(key, value) ==
  LET tok == KeyToken(key)
      args == Literals(PosArgs(ArgPieces(tok.args)))
  IN IF Len(args) = 0 THEN ErrorNode
     ELSE IF tok.name = N_for
     THEN LET body == Build(value)
          IN IF IsErr(body) \/ Len(args) > 2 THEN ErrorNode
             ELSE ForNode(args[1], ArgOr(args, 2, NoNode), body)
     ELSE IF value.t # "list" \/ Len(args) # 1
             \/ \E i \in 1..Len(value.v) :
                  ~ (IsSwitchCase(value.v[i]) \/ IsSwitchDefault(value.v[i]))
          THEN ErrorNode
          ELSE LET cases == SwitchCases(value.v)
                   default == SwitchDefault(value.v)
               IN IF IsErr(default)
                     \/ \E i \in 1..Len(cases) : AnyErr(cases[i][1]) \/ IsErr(cases[i][2])
                  THEN ErrorNode
                  ELSE SwitchNode(args[1], cases, default)

\* One entry of a mapping that holds key-value forms.
ParseEntry(key, value) ==
  IF IsKeyValueForm(key) THEN ParseKeyValue(key, value)
  ELSE LET k == Build(key)
           x == Build(value)
       IN IF IsErr(k) \/ IsErr(x) THEN ErrorNode ELSE DictNode(<< <<k, x>> >>)

ParseExtended(d) ==
  LET name == Lookup(d, StrV(D_directive), Null)
      args == Lookup(d, StrV(D_args), ListV(<<>>))
      kwargs == Lookup(d, StrV(D_kwargs), DictV(<<>>))
  IN IF name.t # "str" \/ args.t # "list" \/ kwargs.t # "dict" THEN ErrorNode
     ELSE MakeDirective(name.v,
                        [i \in 1..Len(args.v) |-> Build(args.v[i])],
                        [i \in 1..Len(kwargs.v) |->
                           <<kwargs.v[i][1].v, Build(kwargs.v[i][2])>>])

ParseSpecial(d, key, name) ==
  LET symbol == Build(Lookup(d, StrV(key), Null))
      args == Build(Lookup(d, StrV(D_args), DictV(<<>>)))
  IN IF IsErr(symbol) \/ IsErr(args) THEN ErrorNode
     ELSE UtilNode(name, <<symbol, args>>)

\* A mapping that is tried as a special form before its keys are looked at.
ParseDictWhole(d) ==
  IF KeyIndex(d, StrV(D_directive)) > 0 THEN ParseExtended(d)
  ELSE IF KeyIndex(d, StrV(D_call)) > 0 THEN ParseSpecial(d, D_call, N_call)
  ELSE IF KeyIndex(d, StrV(D_model)) > 0 THEN ParseSpecial(d, D_model, N_model)
  ELSE IF \E i \in 1..Len(d) : IsKeyValueForm(d[i][1])
  THEN LET nodes == [i \in 1..Len(d) |-> ParseEntry(d[i][1], d[i][2])]
       IN IF AnyErr(nodes) THEN ErrorNode
          ELSE IF Len(nodes) = 1 THEN nodes[1]
          ELSE DictBundleNode(nodes)
  ELSE LET pairs == [i \in 1..Len(d) |-> <<Build(d[i][1]), Build(d[i][2])>>]
       IN IF \E i \in 1..Len(d) : IsErr(pairs[i][1]) \/ IsErr(pairs[i][2])
          THEN ErrorNode
          ELSE DictNode(pairs)

ParseDict(d) ==
  IF \E i \in 1..Len(d) : IsKeyValueForm(d[i][1])
  THEN LET nodes == [i \in 1..Len(d) |-> ParseEntry(d[i][1], d[i][2])]
       IN IF AnyErr(nodes) THEN ErrorNode
          ELSE IF Len(nodes) = 1 THEN nodes[1]
          ELSE DictBundleNode(nodes)
  ELSE IF KeyIndex(d, StrV(D_directive)) > 0 THEN ParseExtended(d)
  ELSE IF KeyIndex(d, StrV(D_call)) > 0 THEN ParseSpecial(d, D_call, N_call)
  ELSE IF KeyIndex(d, StrV(D_model)) > 0 THEN ParseSpecial(d, D_model, N_model)
  ELSE LET pairs == [i \in 1..Len(d) |-> <<Build(d[i][1]), Build(d[i][2])>>]
       IN IF \E i \in 1..Len(d) : IsErr(pairs[i][1]) \/ IsErr(pairs[i][2])
          THEN ErrorNode
          ELSE DictNode(pairs)

\* A list that leaves out the items that cannot be parsed.
ParseListPartial(l) ==
  LET nodes == [i \in 1..Len(l) |-> Build(l[i])]
  IN ListNode(SelectSeq(nodes, LAMBDA node : ~ IsErr(node)))

ParseList(l) ==
  LET nodes == [i \in 1..Len(l) |-> Build(l[i])]
  IN IF AnyErr(nodes) THEN ErrorNode ELSE ListNode(nodes)

Build(raw) ==
  IF raw.t = "str" THEN ParseStr(raw.v)
  ELSE IF raw.t = "dict" THEN ParseDict(raw.v)
  ELSE IF raw.t = "list" THEN ParseList(raw.v)
  ELSE LiteralNode(raw)

\* The position of the first value from i on that cannot be parsed, 0 if
\* all can.
RECURSIVE FirstBad(_, _)
FirstBad(xs, i) ==
  IF i > Len(xs) THEN 0
  ELSE IF IsErr(Build(xs[i])) THEN i
  ELSE FirstBad(xs, i + 1)

\* Where the parser fails: the keys and the positions, from the root, that
\* lead to the first value that cannot be parsed while its parts can.
RECURSIVE ErrorPath(_)
ErrorPathVia(x, i) ==
  IF i = 0 THEN <<>>
  ELSE IF x.t = "list" THEN <<IntV(i - 1)>> \o ErrorPath(x.v[i])
  ELSE <<x.v[i][1]>> \o ErrorPath(x.v[i][2])

ErrorPath(x) ==
  IF x.t = "list" THEN ErrorPathVia(x, FirstBad(x.v, 1))
  ELSE IF x.t = "dict"
  THEN ErrorPathVia(x, FirstBad([i \in 1..Len(x.v) |-> x.v[i][2]], 1))
  ELSE <<>>

\* The syntax error of a build, with the path of the node.
BuildError(x) == [err |-> "SyntaxError", vals |-> <<>>, info |-> ErrorPath(x)]

(***************************************************************************)
(* The processor.  Visiting a node gives the list of its branches (one     *)
(* value per branch) or an error.  The evaluation state e holds the        *)
(* context, the environment variables, the files that can be imported,     *)
(* the branching flag, the stack of loop scopes and the stack of the       *)
(* files being imported.                                                   *)
(***************************************************************************)
Ok(vals) == [err |-> "", vals |-> vals, info |-> Null]
Fail(err) == [err |-> err, vals |-> <<>>, info |-> Null]
FailWith(err, info) == [err |-> err, vals |-> <<>>, info |-> info]

\* python ==, where True == 1 and False == 0.
PyEq(a, b) ==
  LET num(x) == IF x.t = "bool" THEN IntV(IF x.v THEN 1 ELSE 0) ELSE x
  IN num(a) = num(b)

\* pydash has/get with a dotted path through nested mappings.
RECURSIVE DeepGet(_, _)
DeepGet(value, segs) ==
  IF segs = <<>> THEN [found |-> TRUE, val |-> value]
  ELSE IF value.t # "dict" \/ KeyIndex(value.v, StrV(segs[1])) = 0
  THEN [found |-> FALSE, val |-> Null]
  ELSE DeepGet(Lookup(value.v, StrV(segs[1]), Null), Tail(segs))

PathGet(value, path) ==
  IF path.t # "str" THEN [found |-> FALSE, val |-> Null]
  ELSE DeepGet(value, Split(path.v, "."))

\* The name of the environment variable of a path: its last segment, uppercased.
EnvName(path) ==
  LET segs == Split(path.v, ".") IN Upper(segs[Len(segs)])

\* Old and new branches paired position by position, the shorter repeating.
CrossZip(data, branches) ==
  IF data = <<>> \/ branches = <<>> THEN <<>>
  ELSE [i \in 1..(IF Len(data) > Len(branches) THEN Len(data) ELSE Len(branches)) |->
          <<data[((i - 1) % Len(data)) + 1],
            branches[((i - 1) % Len(branches)) + 1]>>]

\* Every old branch with every new one, the old ones varying slowest.
CrossSlow(data, branches) ==
  [i \in 1..(Len(data) * Len(branches)) |->
     <<data[((i - 1) \div Len(branches)) + 1],
       branches[((i - 1) % Len(branches)) + 1]>>]

\* Every old branch with every new one, the old ones varying fastest.
Cross(data, branches) ==
  [i \in 1..(Len(data) * Len(branches)) |->
     <<data[((i - 1) % Len(data)) + 1],
       branches[((i - 1) \div Len(data)) + 1]>>]

\* The combination of every pair of an old branch and a new one.
Merge(pairs, Combine(_, _)) ==
  [i \in 1..Len(pairs) |-> Combine(pairs[i][1], pairs[i][2])]

\* itertools.product(keys, values)
Product(ks, xs) ==
  [i \in 1..(Len(ks) * Len(xs)) |->
     <<ks[((i - 1) \div Len(xs)) + 1], xs[((i - 1) % Len(xs)) + 1]>>]

\* str(x) of a non-negative integer.
RECURSIVE IntStr(_)
IntStr(i) ==
  LET d == <<"0","1","2","3","4","5","6","7","8","9">>
  IN IF i < 10 THEN <<d[i + 1]>> ELSE IntStr(i \div 10) \o <<d[(i % 10) + 1]>>

\* str(x) of a scalar.
ToStr(x) ==
  IF x.t = "str" THEN x.v
  ELSE IF x.t = "int" THEN IntStr(x.v)
  ELSE IF x.t = "bool" THEN (IF x.v THEN K_True ELSE K_False)
  ELSE IF x.t = "null" THEN K_None
  ELSE <<"?">>

RECURSIVE Visit(_, _)

\* A variable that asks the environment before the context.
VisitVarEnvFirst(node, e) ==
  LET id == Visit(node.identifier, e)
      hit == PathGet(e.ctx, id.vals[1])
      useEnv == IF node.env = NoNode THEN Ok(<<BoolV(FALSE)>>) ELSE Visit(node.env, e)
  IN IF id.err # "" THEN id
     ELSE IF useEnv.err # "" THEN useEnv
     ELSE IF /\ useEnv.vals[1] = BoolV(TRUE)
             /\ id.vals[1].t = "str"
             /\ KeyIndex(e.env, EnvName(id.vals[1])) > 0
     THEN Ok(<<Lookup(e.env, EnvName(id.vals[1]), Null)>>)
     ELSE IF hit.found THEN Ok(<<hit.val>>)
     ELSE IF node.default # NoNode THEN Visit(node.default, e)
     ELSE FailWith("MissingVariableError", id.vals[1])

VisitVar(node, e) ==
  LET id == Visit(node.identifier, e)
      hit == PathGet(e.ctx, id.vals[1])
      useEnv == IF node.env = NoNode THEN Ok(<<BoolV(FALSE)>>) ELSE Visit(node.env, e)
  IN IF id.err # "" THEN id
     ELSE IF hit.found THEN Ok(<<hit.val>>)
     ELSE IF useEnv.err # "" THEN useEnv
     ELSE IF /\ useEnv.vals[1] = BoolV(TRUE)
             /\ id.vals[1].t = "str"
             /\ KeyIndex(e.env, EnvName(id.vals[1])) > 0
     THEN Ok(<<Lookup(e.env, EnvName(id.vals[1]), Null)>>)
     ELSE IF node.default # NoNode THEN Visit(node.default, e)
     ELSE FailWith("MissingVariableError", id.vals[1])

\* The concatenation of sequences.
RECURSIVE Flatten(_)
Flatten(ss) == IF ss = <<>> THEN <<>> ELSE ss[1] \o Flatten(Tail(ss))

\* The branches of every case of a sweep, those of a case repeated once for
\* every combination of the branches of the other cases.
VisitCasesTimes(cases, e) ==
  LET rs == [i \in 1..Len(cases) |-> Visit(cases[i], e)]
      bad == {i \in 1..Len(cases) : rs[i].err # ""}
      others(i) == [j \in 1..Len(cases) |-> IF j = i THEN 1 ELSE Len(rs[j].vals)]
      times[i \in 1..Len(cases), j \in 0..Len(cases)] ==
        IF j = 0 THEN 1 ELSE times[i, j - 1] * others(i)[j]
      copies(i) == [k \in 1..times[i, Len(cases)] |-> rs[i].vals]
  IN IF bad # {} THEN rs[CHOOSE i \in bad : \A j \in bad : i <= j]
     ELSE Ok(Flatten([i \in 1..Len(cases) |-> Flatten(copies(i))]))

\* The branches of every case of a sweep, one after the other.
RECURSIVE VisitCases(_, _)
VisitCases(cases, e) ==
  IF cases = <<>> THEN Ok(<<>>)
  ELSE LET r == Visit(cases[1], e)
           rest == VisitCases(Tail(cases), e)
       IN IF r.err # "" THEN r
          ELSE IF rest.err # "" THEN rest
          ELSE Ok(r.vals \o rest.vals)

\* a, b, c of a sequence of strings.
RECURSIVE Join(_)
Join(ss) ==
  IF ss = <<>> THEN <<>>
  ELSE IF Len(ss) = 1 THEN ss[1]
  ELSE ss[1] \o <<",", " ">> \o Join(Tail(ss))

IsScalarLiteral(node) ==
  node.n = "Literal" /\ node.data.t \in {"str", "int", "bool", "null"}

\* The raw structure of a node that is not processed: a sweep goes back to
\* its call form when its cases are scalars, to its extended form otherwise.
RECURSIVE Unparse(_)
Unparse(node) ==
  IF node.n = "Literal" THEN node.data
  ELSE IF node.n = "List"
  THEN ListV([i \in 1..Len(node.nodes) |-> Unparse(node.nodes[i])])
  ELSE IF node.n = "Dict"
  THEN DictV([i \in 1..Len(node.nodes) |->
                <<Unparse(node.nodes[i][1]), Unparse(node.nodes[i][2])>>])
  ELSE IF node.n = "Sweep"
  THEN IF \A i \in 1..Len(node.cases) : IsScalarLiteral(node.cases[i])
       THEN StrV(<<"$">> \o N_sweep \o <<"(">>
                 \o Join([i \in 1..Len(node.cases) |-> ToStr(node.cases[i].data)])
                 \o <<")">>)
       ELSE DictV(<< <<StrV(D_directive), StrV(N_sweep)>>,
                     <<StrV(D_args),
                       ListV([i \in 1..Len(node.cases) |-> Unparse(node.cases[i])])>>,
                     <<StrV(D_kwargs), DictV(<<>>)>> >>)
  ELSE Null

\* A sweep that gives its first case when branching is off.
VisitSweepFirst(node, e) ==
  IF e.branching THEN VisitCases(node.cases, e)
  ELSE IF node.cases = <<>> THEN Ok(<<Null>>)
  ELSE Visit(node.cases[1], e)

\* With branching a sweep gives the branches of all its cases; without, the
\* sweep is disabled: it stays in the result as the directive it is.
VisitSweep(node, e) ==
  IF e.branching THEN VisitCases(node.cases, e)
  ELSE Ok(<<Unparse(node)>>)

\* TRUE, FALSE or an error: does any value of the case equal the key's value.
RECURSIVE CaseMatches(_, _, _)
CaseMatches(values, x, e) ==
  IF values = <<>> THEN Ok(<<BoolV(FALSE)>>)
  ELSE LET r == Visit(values[1], e)
       IN IF r.err # "" THEN r
          ELSE IF PyEq(r.vals[1], x) THEN Ok(<<BoolV(TRUE)>>)
          ELSE CaseMatches(Tail(values), x, e)

\* A switch where the last matching case wins.
VisitSwitchLast(node, i, x, e) ==
  LET hits == {j \in i..Len(node.cases) :
                 CaseMatches(node.cases[j][1], x, e).vals = <<BoolV(TRUE)>>}
  IN IF hits # {}
     THEN Visit(node.cases[CHOOSE j \in hits : \A k \in hits : k <= j][2], e)
     ELSE IF node.default # NoNode THEN Visit(node.default, e)
     ELSE Fail("MissingSwitchCaseError")

\* A switch that gives null when no case matches and there is no default.
VisitSwitchNull(node, i, x, e) ==
  LET hits == {j \in i..Len(node.cases) :
                 CaseMatches(node.cases[j][1], x, e).vals = <<BoolV(TRUE)>>}
  IN IF hits # {}
     THEN Visit(node.cases[CHOOSE j \in hits : \A k \in hits : j <= k][2], e)
     ELSE IF node.default # NoNode THEN Visit(node.default, e)
     ELSE Ok(<<Null>>)

\* A switch that evaluates the body of every entry before it selects one.
VisitSwitchEager(node, i, x, e) ==
  LET bodies == [j \in 1..Len(node.cases) |-> Visit(node.cases[j][2], e)]
      bad == {j \in i..Len(node.cases) : bodies[j].err # ""}
      dflt == IF node.default # NoNode THEN Visit(node.default, e)
              ELSE Fail("MissingSwitchCaseError")
      hits == {j \in i..Len(node.cases) :
                 CaseMatches(node.cases[j][1], x, e).vals = <<BoolV(TRUE)>>}
  IN IF bad # {} THEN bodies[CHOOSE j \in bad : \A k \in bad : j <= k]
     ELSE IF node.default # NoNode /\ dflt.err # "" THEN dflt
     ELSE IF hits # {} THEN bodies[CHOOSE j \in hits : \A k \in hits : j <= k]
     ELSE dflt

RECURSIVE VisitSwitchFrom(_, _, _, _)
VisitSwitchFrom(node, i, x, e) ==
  IF i > Len(node.cases)
  THEN IF node.default # NoNode THEN Visit(node.default, e)
       ELSE Fail("MissingSwitchCaseError")
  ELSE LET m == CaseMatches(node.cases[i][1], x, e)
       IN IF m.err # "" THEN m
          ELSE IF m.vals[1].v THEN Visit(node.cases[i][2], e)
          ELSE VisitSwitchFrom(node, i + 1, x, e)

VisitSwitch(node, e) ==
  LET id == Visit(node.value, e)
      hit == PathGet(e.ctx, id.vals[1])
  IN IF id.err # "" THEN id
     ELSE IF ~ hit.found THEN FailWith("MissingVariableError", id.vals[1])
     ELSE VisitSwitchFrom(node, 1, hit.val, e)

VisitImport(node, e) ==
  LET path == Visit(node.path, e)
      name == path.vals[1]
  IN IF path.err # "" THEN path
     ELSE IF \E i \in 1..Len(e.stack) : e.stack[i] = name
     THEN Fail("CyclicImportError")
     ELSE IF KeyIndex(e.files, name) = 0 THEN Fail("FileNotFoundError")
     ELSE LET ast == Build(Lookup(e.files, name, Null))
          IN IF IsErr(ast) THEN Fail("SyntaxError")
             ELSE Visit(ast, [e EXCEPT !.stack = Append(@, name)])

RECURSIVE VisitListFrom(_, _, _, _)
VisitListFrom(nodes, i, data, e) ==
  IF i > Len(nodes) THEN Ok([j \in 1..Len(data) |-> ListV(data[j])])
  ELSE LET r == Visit(nodes[i], e)
       IN IF r.err # "" THEN r
          ELSE VisitListFrom(nodes, i + 1, Merge(Cross(data, r.vals), Append), e)

RECURSIVE VisitDictFrom(_, _, _, _)
VisitDictFrom(pairs, i, data, e) ==
  IF i > Len(pairs) THEN Ok([j \in 1..Len(data) |-> DictV(data[j])])
  ELSE LET k == Visit(pairs[i][1], e)
           x == Visit(pairs[i][2], e)
           set(d, b) == DictSet(d, b[1], b[2])
       IN IF k.err # "" THEN k
          ELSE IF x.err # "" THEN x
          ELSE VisitDictFrom(pairs, i + 1,
                             Merge(Cross(data, Product(k.vals, x.vals)), set), e)

RECURSIVE VisitStrBundleFrom(_, _, _, _)
VisitStrBundleFrom(nodes, i, data, e) ==
  IF i > Len(nodes) THEN Ok([j \in 1..Len(data) |-> StrV(data[j])])
  ELSE LET r == Visit(nodes[i], e)
           cat(d, b) == d \o ToStr(b)
       IN IF r.err # "" THEN r
          ELSE VisitStrBundleFrom(nodes, i + 1, Merge(Cross(data, r.vals), cat), e)

\* A bundle that puts what an entry gives before the entries so far.
RECURSIVE VisitDictBundleFront(_, _, _, _)
VisitDictBundleFront(nodes, i, data, e) ==
  IF i > Len(nodes) THEN Ok([j \in 1..Len(data) |-> DictV(data[j])])
  ELSE LET r == Visit(nodes[i], e)
           update(d, b) == DictUpdate(b.v, d)
       IN IF r.err # "" THEN r
          ELSE IF \E j \in 1..Len(r.vals) : r.vals[j].t # "dict"
          THEN Fail("TypeError")
          ELSE VisitDictBundleFront(nodes, i + 1, Merge(Cross(data, r.vals), update), e)

RECURSIVE VisitDictBundleFrom(_, _, _, _)
VisitDictBundleFrom(nodes, i, data, e) ==
  IF i > Len(nodes) THEN Ok([j \in 1..Len(data) |-> DictV(data[j])])
  ELSE LET r == Visit(nodes[i], e)
           update(d, b) == DictUpdate(d, b.v)
       IN IF r.err # "" THEN r
          ELSE IF \E j \in 1..Len(r.vals) : r.vals[j].t # "dict"
          THEN Fail("TypeError")
          ELSE VisitDictBundleFrom(nodes, i + 1, Merge(Cross(data, r.vals), update), e)

(***************************************************************************)
(* Loops.  A scope is pushed for every iteration; $index and $item read    *)
(* the innermost scope, or the innermost scope with the identifier given.  *)
(***************************************************************************)
Scope(id, index, item) == [id |-> id, index |-> index, item |-> item]

\* The identifier of a loop that declares none: fresh in the scope stack.
\* One identifier for all the loops that declare none.
AutoIdSame(scopes) == [t |-> "uuid", v |-> 0]

\* The identifier of a loop that declares none: a uuid, here a number.
AutoId(scopes) == [t |-> "uuid", v |-> Len(scopes) + 1]

\* The innermost scope, whatever the identifier.
FindScopeTop(scopes, id, i) == i

\* The position of the scope a loop identifier denotes, 0 if there is none.
RECURSIVE FindScope(_, _, _)
FindScope(scopes, id, i) ==
  IF i = 0 THEN 0
  ELSE IF id = Null \/ scopes[i].id = id THEN i
  ELSE FindScope(scopes, id, i - 1)

VisitIndex(node, e) ==
  LET id == IF node.identifier = NoNode THEN Ok(<<Null>>) ELSE Visit(node.identifier, e)
      i == FindScope(e.scopes, id.vals[1], Len(e.scopes))
  IN IF id.err # "" THEN id
     ELSE IF i = 0 THEN Fail("LoopScopeError")
     ELSE Ok(<<IntV(e.scopes[i].index)>>)

\* $item(x.a.b): the loop identifier is the first segment, the rest a path.
VisitItem(node, e) ==
  LET id == IF node.identifier = NoNode THEN Ok(<<Null>>) ELSE Visit(node.identifier, e)
      segs == IF id.vals[1].t = "str" THEN Split(id.vals[1].v, ".") ELSE <<>>
      loop == IF segs = <<>> THEN id.vals[1] ELSE StrV(segs[1])
      i == FindScope(e.scopes, loop, Len(e.scopes))
      hit == DeepGet(e.scopes[i].item, IF segs = <<>> THEN <<>> ELSE Tail(segs))
  IN IF id.err # "" THEN id
     ELSE IF i = 0 THEN Fail("LoopScopeError")
     ELSE IF ~ hit.found THEN Fail("LoopScopeError")
     ELSE Ok(<<hit.val>>)

\* An iteration that writes its item into the context, under the loop's name.
PushScopeCtx(e, id, index, item) ==
  [e EXCEPT !.scopes = Append(@, Scope(id, index, item)),
            !.ctx = IF id.t = "str" THEN DictV(DictSet(e.ctx.v, id, item)) ELSE e.ctx]

\* An iteration begins: its scope goes on the stack of the loops, and the
\* context stays as the caller gave it.
PushScope(e, id, index, item) ==
  [e EXCEPT !.scopes = Append(@, Scope(id, index, item))]

\* The shape of a loop body: it decides how the iterations are merged.
RECURSIVE BodyKind(_)
BodyKind(node) ==
  IF node.n = "For" THEN BodyKind(node.body)
  ELSE IF node.n \in {"Dict", "DictBundle"} THEN "dict"
  ELSE IF node.n = "List" THEN "list"
  ELSE "str"

\* The items of a loop: 0..N-1 for an integer, the elements for a list.
LoopItems(x) ==
  IF x.t = "int" THEN [i \in 1..x.v |-> Null]
  ELSE IF x.t = "list" THEN x.v
  ELSE <<>>

\* A loop that puts every iteration before the iterations it has merged.
RECURSIVE VisitForFromRev(_, _, _, _, _, _)
VisitForFromRev(node, id, items, i, data, e) ==
  IF i > Len(items) THEN Ok(data)
  ELSE LET e1 == PushScope(e, id, i - 1, items[i])
           r == Visit(node.body, e1)
           kind == BodyKind(node)
           merge(d, b) ==
             IF kind = "dict" THEN DictV(DictUpdate(b.v, d.v))
             ELSE IF kind = "list" THEN ListV(b.v \o d.v)
             ELSE StrV(ToStr(b) \o d.v)
       IN IF r.err # "" THEN r
          ELSE VisitForFromRev(node, id, items, i + 1, Merge(Cross(data, r.vals), merge), e)

RECURSIVE VisitForFrom(_, _, _, _, _, _)
VisitForFrom(node, id, items, i, data, e) ==
  IF i > Len(items) THEN Ok(data)
  ELSE LET e1 == PushScope(e, id, i - 1, items[i])
           r == Visit(node.body, e1)
           kind == BodyKind(node)
           merge(d, b) ==
             IF kind = "dict" THEN DictV(DictUpdate(d.v, b.v))
             ELSE IF kind = "list" THEN ListV(d.v \o b.v)
             ELSE StrV(d.v \o ToStr(b))
       IN IF r.err # "" THEN r
          ELSE IF \E j \in 1..Len(r.vals) :
                    \/ kind = "dict" /\ r.vals[j].t # "dict"
                    \/ kind = "list" /\ r.vals[j].t # "list"
                    \/ kind = "str" /\ r.vals[j].t \in {"dict", "list"}
          THEN Fail("TypeError")
          ELSE VisitForFrom(node, id, items, i + 1, Merge(Cross(data, r.vals), merge), e)

\* A loop that gives every iteration as a branch of its own.
VisitForEach(node, e) ==
  LET it == Visit(node.iterable, e)
      hit == PathGet(e.ctx, it.vals[1])
      x == IF it.vals[1].t = "int" THEN it.vals[1] ELSE hit.val
      items == LoopItems(x)
      rs == [i \in 1..Len(items) |->
               Visit(node.body,
                     [e EXCEPT !.scopes = Append(@, Scope(Null, i - 1, items[i]))])]
      bad == {i \in 1..Len(items) : rs[i].err # ""}
  IN IF it.err # "" THEN it
     ELSE IF it.vals[1].t # "int" /\ ~ hit.found THEN Fail("MissingVariableError")
     ELSE IF bad # {} THEN rs[CHOOSE i \in bad : TRUE]
     ELSE Ok(Flatten([i \in 1..Len(items) |-> rs[i].vals]))

VisitFor(node, e) ==
  LET it == Visit(node.iterable, e)
      hit == PathGet(e.ctx, it.vals[1])
      x == IF it.vals[1].t = "int" THEN it.vals[1] ELSE hit.val
      id == IF node.identifier = NoNode THEN Ok(<<AutoId(e.scopes)>>)
            ELSE Visit(node.identifier, e)
      kind == BodyKind(node)
      empty == IF kind = "dict" THEN DictV(<<>>)
               ELSE IF kind = "list" THEN ListV(<<>>)
               ELSE StrV(<<>>)
  IN IF it.err # "" THEN it
     ELSE IF id.err # "" THEN id
     ELSE IF it.vals[1].t # "int" /\ ~ hit.found THEN Fail("MissingVariableError")
     ELSE IF x.t \notin {"int", "list"} THEN Fail("TypeError")
     ELSE VisitForFrom(node, id.vals[1], LoopItems(x), 1, <<empty>>, e)

\* The utilities.  What $uuid and $tmp give is not known before the call
\* runs: a uuid to be drawn, a folder under the temporary directory with
\* the name given, or with a name to be drawn when there is none.
UuidV == [t |-> "uuid4", v |-> <<>>]
TmpV(name) == [t |-> "tmp", v |-> name]
VisitUtil(node, e) ==
  IF node.name = N_uuid /\ node.args = <<>> THEN Ok(<<UuidV>>)
  ELSE IF node.name = N_tmp /\ node.args = <<>> THEN Ok(<<TmpV(Null)>>)
  ELSE IF node.name = N_tmp /\ Len(node.args) = 1 /\ node.args[1].n = "Literal"
  THEN IF node.args[1].data.t # "str" THEN Fail("TypeError")
       ELSE Ok(<<TmpV(node.args[1].data)>>)
  ELSE Fail("NotImplementedError")

Visit(node, e) ==
  IF node.n = "Literal" THEN Ok(<<node.data>>)
  ELSE IF node.n = "Dict" THEN VisitDictFrom(node.nodes, 1, <<(<<>>)>>, e)
  ELSE IF node.n = "List" THEN VisitListFrom(node.nodes, 1, <<(<<>>)>>, e)
  ELSE IF node.n = "StrBundle" THEN VisitStrBundleFrom(node.nodes, 1, <<(<<>>)>>, e)
  ELSE IF node.n = "DictBundle" THEN VisitDictBundleFrom(node.nodes, 1, <<(<<>>)>>, e)
  ELSE IF node.n = "Var" THEN VisitVar(node, e)
  ELSE IF node.n = "Sweep" THEN VisitSweep(node, e)
  ELSE IF node.n = "Switch" THEN VisitSwitch(node, e)
  ELSE IF node.n = "Import" THEN VisitImport(node, e)
  ELSE IF node.n = "For" THEN VisitFor(node, e)
  ELSE IF node.n = "Index" THEN VisitIndex(node, e)
  ELSE IF node.n = "Item" THEN VisitItem(node, e)
  ELSE IF node.n = "Util" THEN VisitUtil(node, e)
  ELSE Fail("NotImplementedError")

EvalState(ctx, env, files, branching) ==
  [ctx |-> ctx, env |-> env, files |-> files, branching |-> branching,
   scopes |-> <<>>, stack |-> <<>>]

\* process: no branching, exactly one result.
Process(ast, ctx, env, files) == Visit(ast, EvalState(ctx, env, files, FALSE))

\* process_all: branching, the list of all results.
ProcessAll(ast, ctx, env, files) == Visit(ast, EvalState(ctx, env, files, TRUE))

(***************************************************************************)
(* A call in its process.  The uuids and the names of the unnamed          *)
(* temporary folders are drawn while the call runs; the temporary folders  *)
(* last as long as the process.                                            *)
(***************************************************************************)
TmpBase == <<"/","t","m","p","/">>

\* A uuid that is the same in every branch of a call.
DrawUuidShared(call, branch, place) == [t |-> "uuid4", v |-> <<call, 1, place>>]

\* The uuid drawn at an evaluation: no two evaluations draw the same one,
\* so it stands for the call, the branch and the place it was drawn at.
DrawUuid(call, branch, place) == [t |-> "uuid4", v |-> <<call, branch, place>>]

\* A folder name that is drawn anew at every place without a name.
TmpNameEach(x, rand, place) ==
  IF x.v = Null THEN rand \o Flatten([i \in 1..Len(place) |-> IntStr(place[i])])
  ELSE x.v.v

\* The name of a temporary folder: the name given, or the one random name
\* of the call.
TmpName(x, rand, place) == IF x.v = Null THEN rand ELSE x.v.v

\* The result of a branch with its uuids and its folder names drawn.
RECURSIVE Resolve(_, _, _, _, _)
Resolve(x, call, branch, rand, place) ==
  IF x.t = "uuid4" THEN DrawUuid(call, branch, place)
  ELSE IF x.t = "tmp" THEN StrV(TmpBase \o TmpName(x, rand, place))
  ELSE IF x.t = "dict"
  THEN DictV([i \in 1..Len(x.v) |->
                <<x.v[i][1], Resolve(x.v[i][2], call, branch, rand, Append(place, i))>>])
  ELSE IF x.t = "list"
  THEN ListV([i \in 1..Len(x.v) |-> Resolve(x.v[i], call, branch, rand, Append(place, i))])
  ELSE x

\* The names of the temporary folders of a result, in order.
RECURSIVE Folders(_, _, _)
Folders(x, rand, place) ==
  IF x.t = "tmp" THEN <<TmpName(x, rand, place)>>
  ELSE IF x.t = "dict"
  THEN Flatten([i \in 1..Len(x.v) |-> Folders(x.v[i][2], rand, Append(place, i))])
  ELSE IF x.t = "list"
  THEN Flatten([i \in 1..Len(x.v) |-> Folders(x.v[i], rand, Append(place, i))])
  ELSE <<>>

\* A folder is created unless it is there.
MakeDir(st, name) ==
  IF name \in st.dirs THEN st
  ELSE [dirs |-> st.dirs \cup {name}, log |-> Append(st.log, name)]

RECURSIVE MakeDirs(_, _)
MakeDirs(st, names) ==
  IF names = <<>> THEN st ELSE MakeDirs(MakeDir(st, names[1]), Tail(names))

(***************************************************************************)
(* The inspector: a walk over the AST with no context.  It gathers the     *)
(* variables and the loop iterables with their defaults, the variables     *)
(* that may come from the environment, the files imported, the symbols,    *)
(* and whether the configuration is processed already: the audit of a      *)
(* configuration with variables prints processed False, that of an empty   *)
(* one prints True.                                                        *)
(***************************************************************************)
Use(k, path, default) == [k |-> k, path |-> path, default |-> default]
Found(uses, imports, symbols, processed) ==
  [err |-> "", uses |-> uses, imports |-> imports, symbols |-> symbols,
   processed |-> processed]
Nothing == Found(<<>>, {}, {}, TRUE)

\* Two reports together, processed when either is.
BothAny(a, b) ==
  Found(a.uses \o b.uses, a.imports \cup b.imports, a.symbols \cup b.symbols,
        a.processed \/ b.processed)

\* Two reports together: processed only when both are.
Both(a, b) ==
  Found(a.uses \o b.uses, a.imports \cup b.imports, a.symbols \cup b.symbols,
        a.processed /\ b.processed)
Lost(err) == [Nothing EXCEPT !.err = err]

\* What two walks found, or the error of the first that failed.
Then(a, b) ==
  IF a.err # "" THEN a
  ELSE IF b.err # "" THEN b
  ELSE Both(a, b)

\* A variable without a default is an error for the inspector too.
InspectVarStrict(node) ==
  IF node.default = NoNode THEN Lost("MissingVariableError")
  ELSE Found(<<Use("var", node.identifier.data, node.default.data)>>, {}, {}, FALSE)

\* A variable: its path with its default, or null; once more for the
\* environment when env is true.
InspectVar(node) ==
  LET default == IF node.default = NoNode THEN Null ELSE node.default.data
      var == Use("var", node.identifier.data, default)
  IN Found(IF node.env # NoNode /\ node.env.data = BoolV(TRUE)
           THEN <<var, Use("env", node.identifier.data, default)>>
           ELSE <<var>>, {}, {}, FALSE)

\* The nodes below a node.
Children(node) ==
  IF node.n \in {"List", "StrBundle", "DictBundle"} THEN node.nodes
  ELSE IF node.n = "Dict"
  THEN Flatten([i \in 1..Len(node.nodes) |-> <<node.nodes[i][1], node.nodes[i][2]>>])
  ELSE IF node.n = "Sweep" THEN node.cases
  ELSE IF node.n = "Switch"
  THEN Flatten([i \in 1..Len(node.cases) |->
                  Append(node.cases[i][1], node.cases[i][2])])
       \o (IF node.default = NoNode THEN <<>> ELSE <<node.default>>)
  ELSE IF node.n = "For" THEN <<node.body>>
  ELSE IF node.n = "Util" THEN node.args
  ELSE <<>>

\* A loop whose iterable is not reported.
InspectOwnBody(node) ==
  IF node.n = "Util" /\ node.name \in {N_symbol, N_call, N_model} /\ node.args # <<>>
  THEN Found(<<>>, {}, {node.args[1].data}, FALSE)
  ELSE Found(<<>>, {}, {}, node.n \in {"Dict", "List"})

\* What a node that is not a variable or an import reports itself: a loop
\* its iterable, a symbol, a call or a model its target; every directive,
\* that the configuration is not processed yet.
InspectOwn(node) ==
  IF node.n = "For" /\ node.iterable.data.t = "str"
  THEN Found(<<Use("var", node.iterable.data, Null)>>, {}, {}, FALSE)
  ELSE IF node.n = "Util" /\ node.name \in {N_symbol, N_call, N_model} /\ node.args # <<>>
  THEN Found(<<>>, {}, {node.args[1].data}, FALSE)
  ELSE Found(<<>>, {}, {}, node.n \in {"Dict", "List"})

RECURSIVE InspectNode(_, _, _)
RECURSIVE InspectAll(_, _, _)
InspectAll(nodes, fs, stack) ==
  IF nodes = <<>> THEN Nothing
  ELSE Then(InspectNode(nodes[1], fs, stack), InspectAll(Tail(nodes), fs, stack))

\* The AST of an imported file: the file is recorded and its AST inspected.
InspectFile(name, sub, fs, stack) ==
  IF IsErr(sub) THEN Lost("SyntaxError")
  ELSE Then(Found(<<>>, {name}, {}, FALSE), InspectNode(sub, fs, Append(stack, name)))

\* An import: a file that is being imported already is a cycle.
InspectImport(node, fs, stack) ==
  IF \E i \in 1..Len(stack) : stack[i] = node.path.data THEN Lost("CyclicImportError")
  ELSE IF KeyIndex(fs, node.path.data) = 0 THEN Lost("FileNotFoundError")
  ELSE InspectFile(node.path.data, Build(Lookup(fs, node.path.data, Null)), fs, stack)

InspectNode(node, fs, stack) ==
  IF node.n \in {"Literal", "None"} THEN Nothing
  ELSE IF node.n = "Var" THEN InspectVar(node)
  ELSE IF node.n = "Import" THEN InspectImport(node, fs, stack)
  ELSE Then(InspectOwn(node), InspectAll(Children(node), fs, stack))

\* A value at a dotted path of nested mappings, the mappings made on the way.
RECURSIVE SetPath(_, _, _)
SetPath(d, segs, x) ==
  IF Len(segs) = 1 THEN DictSet(d, StrV(segs[1]), x)
  ELSE LET old == Lookup(d, StrV(segs[1]), Null)
           sub == IF old.t = "dict" THEN old.v ELSE <<>>
       IN DictSet(d, StrV(segs[1]), DictV(SetPath(sub, Tail(segs), x)))

\* The structure of the uses of one kind, each at its path.
RECURSIVE Structure(_, _, _)
Structure(uses, k, d) ==
  IF uses = <<>> THEN DictV(d)
  ELSE IF uses[1].k = k /\ uses[1].path.t = "str"
  THEN Structure(Tail(uses), k, SetPath(d, Split(uses[1].path.v, "."), uses[1].default))
  ELSE Structure(Tail(uses), k, d)

Inspection(r) ==
  [imports |-> r.imports, variables |-> Structure(r.uses, "var", <<>>),
   environ |-> Structure(r.uses, "env", <<>>), symbols |-> r.symbols,
   processed |-> r.processed]

\* The report of a walk, or the error of its imports.
Reported(r) ==
  IF r.err # "" THEN Fail(r.err)
  ELSE [err |-> "", vals |-> <<>>, info |-> Inspection(r)]

\* inspect
Inspect(ast, fs) == Reported(InspectNode(ast, fs, <<>>))

(***************************************************************************)
(* The raw structures, contexts, environments and files of the model.      *)
(***************************************************************************)
Letters == <<"a","b","c","d","e","f","g","h","i","j","k","l","m","n","o","p","q","r","s","t","u","v","w","x","y","z">>
Key(i) == StrV(<<Letters[i]>>)

\* The sequences over S of length at most n.
SeqsUpTo(S, n) == UNION {[1..k -> S] : k \in 0..n}

\* The pair sequences of at most n entries with values in S, their keys the
\* first keys in ascending order or in descending order.
PairSeqs(S, n) ==
  UNION {{[i \in 1..k |-> <<Key(i), xs[i]>>] : xs \in [1..k -> S]}
         \cup {[i \in 1..k |-> <<Key(k + 1 - i), xs[i]>>] : xs \in [1..k -> S]} :
         k \in 0..n}

\* The lists and mappings over S, and those that hold one of them.
Nest(S) ==
  {ListV(l) : l \in SeqsUpTo(S, MaxWidth)}
  \cup {DictV(d) : d \in PairSeqs(S, MaxWidth)}

Nest2(S) ==
  {ListV(<<x>>) : x \in Nest(S)}
  \cup {DictV(<< <<Key(2), IntV(7)>>, <<Key(1), x>> >>) : x \in Nest(S)}

W_text == <<"x"," ","y">>
W_plain == <<"g">>

LitAtoms == {StrV(W_text), IntV(7), BoolV(TRUE), Null}
LitRaws == LitAtoms \cup Nest(LitAtoms) \cup Nest2(LitAtoms)

\* $sweep(v1, v2, ...) in call form.
SweepStr(vals) == StrV(<<"$">> \o N_sweep \o <<"(">> \o Join(vals) \o <<")">>)

\* Sweep 1 runs over the letters a, b, ..., sweep 2 over 1, 2, ...
Sweep1(n) == SweepStr([i \in 1..n |-> <<Letters[i]>>])
Sweep2(n) == SweepStr([i \in 1..n |-> IntStr(i)])

SweepAtoms ==
  {Sweep1(n) : n \in 1..MaxArity} \cup {Sweep2(MaxArity), IntV(7)}
\* Two values at different depths of one structure.
MixedDepth(S) ==
  {DictV(<< <<Key(1), DictV(<< <<Key(2), x>> >>)>>, <<Key(2), y>> >>) : x, y \in S}
  \cup {ListV(<<x, DictV(<< <<Key(1), y>> >>)>>) : x, y \in S}
  \cup {ListV(<<ListV(<<ListV(<<x>>)>>), y>>) : x, y \in S}

SweepRaws ==
  SweepAtoms \cup Nest(SweepAtoms) \cup Nest2(SweepAtoms) \cup MixedDepth(SweepAtoms)

\* A sweep in extended form, its cases raw structures.
SweepExt(cases) ==
  DictV(<< <<StrV(D_directive), StrV(N_sweep)>>,
           <<StrV(D_args), ListV(cases)>>,
           <<StrV(D_kwargs), DictV(<<>>)>> >>)

SweepCases ==
  {StrV(W_plain), Sweep2(MaxArity),
   DictV(<< <<Key(1), Sweep1(MaxArity)>>, <<Key(2), IntV(7)>> >>),
   ListV(<<Sweep1(MaxArity), Sweep2(MaxArity)>>)}

NestedRaws ==
  LET outer == {SweepExt(cs) : cs \in SeqsUpTo(SweepCases, MaxWidth) \ {<<>>}}
  IN {DictV(<< <<Key(1), x>> >>) : x \in outer}
     \cup {DictV(<< <<Key(1), x>>, <<Key(2), Sweep1(MaxArity)>> >>) : x \in outer}

\* $var(path[, default=d][, env=f]) in call form; <<>> leaves an argument out.
W_x == <<"x">>
W_ab == <<"a",".","b">>
W_dd == <<"d","d">>
W_9 == <<"9">>
VarStr(path, default, env) ==
  StrV(<<"$">> \o N_var \o <<"(">> \o path
       \o (IF default = <<>> THEN <<>> ELSE <<",", " ">> \o K_default \o <<"=">> \o default)
       \o (IF env = <<>> THEN <<>> ELSE <<",", " ">> \o K_env \o <<"=">> \o env)
       \o <<")">>)

VarPaths == {W_x, W_ab}
VarDefaults == {<<>>, W_dd, W_9}
VarEnvs == {<<>>, K_True, K_False}
VarStrs == {VarStr(p, d, f) : p \in VarPaths, d \in VarDefaults, f \in VarEnvs}
VarRaws == VarStrs \cup {DictV(<< <<Key(1), x>> >>) : x \in VarStrs}

\* A mapping that is one $switch(nation) over a list of cases.
W_nation == <<"n","a","t","i","o","n">>
W_UK == <<"U","K">>
W_USA == <<"U","S","A">>
W_IT == <<"I","T">>
W_FR == <<"F","R">>
W_hello == <<"h","e","l","l","o">>
W_ciao == <<"c","i","a","o">>
W_hi == <<"h","i">>
W_wave == <<"w","a","v","e">>
SwitchKey == StrV(<<"$">> \o N_switch \o <<"(">> \o W_nation \o <<")">>)
CaseEntry(c, body) == DictV(<< <<StrV(D_case), c>>, <<StrV(D_then), body>> >>)
DefaultEntry(body) == DictV(<< <<StrV(D_dflt), body>> >>)
SwitchEntries ==
  {CaseEntry(ListV(<<StrV(W_UK), StrV(W_USA)>>), StrV(W_hello)),
   CaseEntry(StrV(W_UK), StrV(W_hi)),
   CaseEntry(StrV(W_IT), StrV(W_ciao)),
   DefaultEntry(StrV(W_wave))}
SwitchRaws ==
  {DictV(<< <<Key(1), DictV(<< <<SwitchKey, ListV(cs)>> >>)>> >>) :
     cs \in SeqsUpTo(SwitchEntries, MaxWidth + 1)}

\* A switch whose bodies read variables, followed by one more key: zz is in
\* no context, x is in some.
W_zz == <<"z","z">>
LazyEntries ==
  {CaseEntry(StrV(W_UK), VarStr(W_zz, <<>>, <<>>)),
   CaseEntry(StrV(W_IT), StrV(W_ciao)),
   CaseEntry(StrV(W_USA), VarStr(W_x, <<>>, <<>>))}
LazyDefaults == {DefaultEntry(VarStr(W_zz, <<>>, <<>>)), DefaultEntry(StrV(W_wave))}
LazyTails == {StrV(W_hi), VarStr(W_zz, <<>>, <<>>)}
LazyRaw(cs, d, tail) ==
  DictV(<< <<Key(1), DictV(<< <<SwitchKey, ListV(Append(cs, d))>> >>)>>,
           <<Key(2), tail>> >>)
LazyRaws ==
  {LazyRaw(cs, d, tail) : cs \in SeqsUpTo(LazyEntries, MaxWidth),
                          d \in LazyDefaults, tail \in LazyTails}

\* Strings that mix text and variables: "$var(x) is a $var(nation)", ...
W_is == <<" ","i","s"," ","a"," ">>
W_neq == <<"n","=">>
BundleStr(parts) == StrV(Flatten(parts))
BundleRaws ==
  {BundleStr(<<VarStr(W_x, <<>>, <<>>).v, W_is, VarStr(W_nation, <<>>, <<>>).v>>),
   BundleStr(<<VarStr(W_x, <<>>, <<>>).v, VarStr(W_nation, <<>>, <<>>).v>>),
   BundleStr(<<W_neq, VarStr(W_x, <<>>, <<>>).v>>)}

\* Strings put together from plain text, directives and words that only
\* look like directives: "", " is a $var(x)", "$index$variable", ...
W_variable == <<"$","v","a","r","i","a","b","l","e">>
W_indexes == <<"$","i","n","d","e","x","e","s">>
Fragments ==
  {W_is, VarStr(W_x, <<>>, <<>>).v, <<"$">> \o N_index, W_variable, W_indexes}
StringRaws == {BundleStr(fs) : fs \in SeqsUpTo(Fragments, 2)}

\* A mapping that is one $for(iterable[, id]) over a body.
W_n == <<"n">>
W_2 == <<"2">>
W_items == <<"i","t","e","m","s">>
W_name == <<"n","a","m","e">>
W_Luna == <<"L","u","n","a">>
W_Milo == <<"M","i","l","o">>
ForKey(iterable, id) ==
  StrV(<<"$">> \o N_for \o <<"(">> \o iterable
       \o (IF id = <<>> THEN <<>> ELSE <<",", " ">> \o id)
       \o <<")">>)
\* Bodies: a mapping with a key per iteration, a mapping with one key for
\* all iterations, a list and a string.
B_keys == DictV(<< <<StrV(<<"k","$","i","n","d","e","x">>), StrV(<<"$","i","n","d","e","x">>)>> >>)
B_key == DictV(<< <<StrV(<<"k">>), StrV(<<"$","i","n","d","e","x">>)>> >>)
B_list == ListV(<<StrV(<<"$","i","n","d","e","x">>), StrV(<<"$","i","t","e","m">>)>>)
B_str == StrV(<<"c","$","i","n","d","e","x"," ">>)
LoopBodies == {B_keys, B_key, B_list, B_str}
LoopRaws ==
  {DictV(<< <<Key(1), DictV(<< <<ForKey(it, <<>>), b>> >>)>> >>) :
     it \in {W_2, W_n, W_items}, b \in LoopBodies}
  \cup {DictV(<< <<ForKey(W_items, W_x),
                   ListV(<<StrV(<<"$","i","n","d","e","x","(","x",")">>), StrV(<<"$","i","t","e","m","(","x",".","n","a","m","e",")">>)>>)>> >>),
        DictV(<< <<ForKey(W_2, W_x),
                   DictV(<< <<ForKey(W_n, <<>>),
                              ListV(<<StrV(<<"$","i","n","d","e","x","(","x",")","$","i","n","d","e","x">>)>>)>> >>)>> >>)}

\* Mappings that mix plain pairs, loops in key-value form and the keys of
\* the extended and special forms, in every order:
\*   a: 7 / k0: g / $for(2): {k$index: $index} / $for(n, x): {k: $index}
\*   $directive: var / $args: [x] / $call: g
W_k0 == <<"k","0">>
MixedEntries ==
  {<<Key(1), IntV(7)>>, <<StrV(W_k0), StrV(W_plain)>>,
   <<ForKey(W_2, <<>>), B_keys>>, <<ForKey(W_n, W_x), B_key>>}
FormEntries ==
  {<<StrV(D_directive), StrV(N_var)>>, <<StrV(D_args), ListV(<<StrV(W_x)>>)>>,
   <<StrV(D_call), StrV(W_plain)>>}
Injective(s) == \A i, j \in 1..Len(s) : s[i] = s[j] => i = j
MixedRaws ==
  {DictV(d) : d \in {s \in SeqsUpTo(MixedEntries \cup FormEntries, 2)
                              \cup SeqsUpTo(MixedEntries, 3) : Injective(s)}}

\* Call forms with parentheses inside: a directive or a tuple as an
\* argument, alone, after a text, and inside a mapping or a list.
W_nested == <<"$","v","a","r","(","$","v","a","r","(","x",")",")">>
W_tuple == <<"$","s","w","e","e","p","(","(","1",","," ","2",")",","," ","3",")">>
W_double == <<"$","i","n","d","e","x","(","(","x",")",")">>
NestedCalls == {W_nested, W_tuple, W_double, W_is \o W_nested, W_nested \o W_is}
NestedCallRaws ==
  {StrV(s) : s \in NestedCalls}
  \cup {DictV(<< <<Key(1), IntV(7)>>, <<Key(2), StrV(s)>> >>) : s \in NestedCalls}
  \cup {ListV(<<StrV(s), VarStr(W_x, <<>>, <<>>)>>) : s \in NestedCalls}

\* A directive in call form with one argument or none.
UtilStr(name, arg) == StrV(<<"$">> \o name \o <<"(">> \o arg \o <<")">>)

\* A loop x whose body is a loop y, one over a list and one over a number,
\* around one $index or $item, with no identifier, with x, with y, or
\* with a path into the item.
W_y == <<"y">>
Leaves ==
  {StrV(<<"$">> \o N_index), StrV(<<"$">> \o N_item)}
  \cup {UtilStr(d, id) : d \in {N_index, N_item}, id \in {W_x, W_y}}
  \cup {UtilStr(N_item, id \o <<".">> \o W_name) : id \in {W_x, W_y}}
NestedLoop(outer, inner, leaf) ==
  DictV(<< <<Key(1),
             DictV(<< <<ForKey(outer, W_x),
                        ListV(<<DictV(<< <<ForKey(inner, W_y), ListV(<<leaf>>)>> >>)>>)>> >>)>> >>)
NestedLoopRaws ==
  {NestedLoop(its[1], its[2], leaf) :
     its \in {<<W_items, W_2>>, <<W_2, W_items>>}, leaf \in Leaves}

\* A loop named like a key of the context, with a variable of that name
\* read in its body and read after it.
CtxLoopRaw(it, id) ==
  DictV(<< <<Key(1), DictV(<< <<ForKey(it, id),
                                ListV(<<VarStr(id, W_dd, <<>>)>>)>> >>)>>,
           <<Key(2), VarStr(id, W_dd, <<>>)>> >>)
CtxLoopRaws == {CtxLoopRaw(it, id) : it \in {W_2, W_items}, id \in {W_x, W_nation}}

\* The contexts a caller may pass.
Contexts ==
  {DictV(<<>>),
   DictV(<< <<StrV(W_x), IntV(1)>>, <<StrV(W_nation), StrV(W_UK)>>,
            <<StrV(W_n), IntV(2)>> >>),
   DictV(<< <<Key(1), DictV(<< <<Key(2), IntV(2)>> >>)>>,
            <<StrV(W_nation), StrV(W_USA)>>,
            <<StrV(W_items),
              ListV(<<DictV(<< <<StrV(W_name), StrV(W_Luna)>> >>),
                      DictV(<< <<StrV(W_name), StrV(W_Milo)>> >>)>>)>> >>),
   DictV(<< <<Key(1), DictV(<< <<Key(3), IntV(3)>> >>)>>,
            <<StrV(W_x), Null>>, <<StrV(W_nation), StrV(W_IT)>> >>),
   DictV(<< <<StrV(W_nation), StrV(W_FR)>> >>)}

\* The environment variables of the process: pairs <<name, value>>.
W_ex == <<"e","x">>
W_eb == <<"e","b">>
Environs ==
  {<<>>,
   << <<Upper(W_x), StrV(W_ex)>> >>,
   << <<<<"B">>, StrV(W_eb)>> >>,
   << <<Upper(W_x), StrV(W_ex)>>, <<<<"B">>, StrV(W_eb)>> >>}

\* The files f1, f2, ... of one folder, and what a file can hold: a literal,
\* the import of a file, or a list of the imports of two files.
FileName(j) == StrV(<<"f">> \o IntStr(j))
ImportStr(j) == StrV(<<"$">> \o N_import \o <<"(">> \o FileName(j).v \o <<")">>)
ImportPair(j, k) == ListV(<<ImportStr(j), ImportStr(k)>>)
FileContents ==
  {IntV(7)}
  \cup {ImportStr(j) : j \in 1..MaxFiles}
  \cup {ImportPair(j, j + 1) : j \in 1..(MaxFiles - 1)}
FileSystems ==
  {[j \in 1..MaxFiles |-> <<FileName(j), c[j]>>] : c \in [1..MaxFiles -> FileContents]}
ImportRaws ==
  {DictV(<< <<Key(1), ImportStr(1)>> >>), ImportPair(1, 2), ImportPair(1, 1)}

\* A folder where f1 and f2 both import f3.
DiamondFolder ==
  << <<FileName(1), ImportStr(3)>>, <<FileName(2), ImportStr(3)>>,
     <<FileName(3), IntV(7)>> >>

\* Configurations that import f1 beside a variable of their own, and the
\* folders they are inspected in: f1 reads variables or imports f2, f2 is a
\* literal, reads a variable, or imports f1 back; one folder is empty.
InspectRaw(tail) == DictV(<< <<Key(1), ImportStr(1)>>, <<Key(2), tail>> >>)
InspectRaws ==
  {InspectRaw(t) : t \in {VarStr(W_zz, <<>>, <<>>), VarStr(W_ab, W_dd, K_True)}}
InspectFolders ==
  {<<>>}
  \cup {<< <<FileName(1), a>>, <<FileName(2), b>> >> :
          a \in {VarStr(W_nation, <<>>, <<>>),
                 DictV(<< <<Key(3), VarStr(W_x, W_9, K_True)>> >>),
                 ImportStr(2)},
          b \in {IntV(7), VarStr(W_n, W_dd, <<>>), ImportStr(1)}}

\* Configurations with utilities: uuids alone, twice, beside a sweep and in
\* a loop; temporary folders with and without a name; and configurations
\* with no utility at all.
Pair(x, y) == DictV(<< <<Key(1), x>>, <<Key(2), y>> >>)
UuidRaws ==
  {StrV(<<"$">> \o N_uuid),
   Pair(StrV(<<"$">> \o N_uuid), StrV(<<"$">> \o N_uuid)),
   Pair(Sweep1(MaxArity), StrV(<<"$">> \o N_uuid)),
   DictV(<< <<Key(1), DictV(<< <<ForKey(W_2, <<>>),
                                 ListV(<<StrV(<<"$">> \o N_uuid)>>)>> >>)>> >>)}
TmpRaws ==
  {Pair(UtilStr(N_tmp, a), UtilStr(N_tmp, b)) :
     a \in {<<>>, W_x}, b \in {<<>>, W_x, W_dd}}
  \cup {Pair(Sweep1(MaxArity), UtilStr(N_tmp, <<>>))}
PlainRaws ==
  {Sweep1(MaxArity), Pair(Sweep1(MaxArity), Sweep2(MaxArity)),
   VarStr(W_x, W_dd, <<>>), VarStr(W_zz, <<>>, <<>>)}
\* A $tmp or a $uuid beside a directive that cannot be parsed, in a mapping
\* and in a list, before it and after it.
W_novar == <<"$","v","a","r","(",")">>
Malformed == {StrV(W_nested), StrV(W_novar), ListV(<<IntV(7), StrV(W_tuple)>>)}
Effects == {UtilStr(N_tmp, W_x), UtilStr(N_tmp, <<>>), StrV(<<"$">> \o N_uuid)}
BrokenRaws ==
  {Pair(a, b) : a \in Effects, b \in Malformed}
  \cup {ListV(<<b, a>>) : a \in Effects, b \in Malformed}
  \cup {ListV(<<a, a, b>>) : a \in Effects, b \in Malformed}
UtilRaws == UuidRaws \cup TmpRaws \cup PlainRaws \cup BrokenRaws
RandNames == {<<"r","1">>, <<"r","2">>}
UtilContexts == {DictV(<<>>), DictV(<< <<StrV(W_x), IntV(1)>> >>)}

\* What a session starts from: a raw structure, an environment, the files.
Start(raw, env, files) == [raw |-> raw, env |-> env, files |-> files]
Starts ==
  {Start(x, <<>>, <<>>) :
     x \in LitRaws \cup SweepRaws \cup NestedRaws \cup SwitchRaws \cup LoopRaws
           \cup BundleRaws \cup CtxLoopRaws \cup LazyRaws
           \cup NestedLoopRaws \cup StringRaws \cup MixedRaws
           \cup NestedCallRaws}
  \cup {Start(x, env, <<>>) : x \in VarRaws, env \in Environs}
  \cup {Start(x, <<>>, fs) : x \in InspectRaws, fs \in InspectFolders}

(***************************************************************************)
(* The session: a configuration is constructed from a raw structure,       *)
(* parsed, and processed with a context given by the caller.               *)
(***************************************************************************)
VARIABLES raw, env, files, ast, out, walk, run

vars == <<raw, env, files, ast, out, walk, run>>

\* What lasts as long as the python process: the calls and the builds made,
\* the temporary folders there are, every creation of a folder in order,
\* and the call before the last one.  Nothing has happened yet.
NoRun ==
  [calls |-> 0, builds |-> 0, built |-> 0, dirs |-> {}, log |-> <<>>,
   prev |-> [op |-> "none", ctx |-> Null, built |-> 0, err |-> "", vals |-> <<>>]]

\* No walk over the imports is going on.
Idle ==
  [mode |-> "none", status |-> "idle", frames |-> <<>>, imports |-> {},
   trail |-> <<>>, steps |-> 0]

NoOut == [op |-> "none", ctx |-> Null, err |-> "", vals |-> <<>>, info |-> Null]
Out(op, ctx, r) ==
  [op |-> op, ctx |-> ctx, err |-> r.err, vals |-> r.vals, info |-> r.info]

Init ==
  /\ \E s \in Starts : raw = s.raw /\ env = s.env /\ files = s.files
  /\ ast = NoNode
  /\ out = NoOut
  /\ walk = Idle
  /\ run = NoRun

\* parse(): the AST of the raw structure, or a syntax error.
Parse ==
  /\ ast = NoNode
  /\ ast' = Build(raw)
  /\ out' = IF IsErr(ast') THEN Out("parse", Null, BuildError(raw)) ELSE out
  /\ UNCHANGED <<raw, env, files, walk, run>>

\* process(context)
DoProcess(ctx) ==
  /\ ast # NoNode
  /\ ~ IsErr(ast)
  /\ out' = Out("process", ctx, Process(ast, ctx, env, files))
  /\ UNCHANGED <<raw, env, files, ast, walk, run>>

\* process_all(context)
DoProcessAll(ctx) ==
  /\ ast # NoNode
  /\ ~ IsErr(ast)
  /\ out' = Out("process_all", ctx, ProcessAll(ast, ctx, env, files))
  /\ UNCHANGED <<raw, env, files, ast, walk, run>>

\* inspect()
DoInspect ==
  /\ ast # NoNode
  /\ ~ IsErr(ast)
  /\ out' = Out("inspect", Null, Inspect(ast, files))
  /\ UNCHANGED <<raw, env, files, ast, walk, run>>

Next ==
  \/ Parse
  \/ \E ctx \in Contexts : DoProcess(ctx)
  \/ \E ctx \in Contexts : DoProcessAll(ctx)
  \/ DoInspect

Spec == Init /\ [][Next]_vars

(***************************************************************************)
(* The calls of one python process: the configuration is built, more than  *)
(* once, and evaluated, more than once, with what the process keeps        *)
(* between the calls.                                                      *)
(***************************************************************************)
UtilInit ==
  /\ raw \in UtilRaws
  /\ env = <<>>
  /\ files = <<>>
  /\ ast = NoNode
  /\ out = NoOut
  /\ walk = Idle
  /\ run = NoRun

\* A build that keeps the value of the last evaluation in the AST.
BuildMemo ==
  /\ run.builds < MaxBuilds
  /\ run.builds <= run.calls
  /\ ast' = IF out.vals # <<>> THEN LiteralNode(out.vals[1]) ELSE Build(raw)
  /\ run' = [run EXCEPT !.builds = @ + 1]
  /\ UNCHANGED <<raw, env, files, out, walk>>

\* build(raw), the first time or again after a call.
BuildAst ==
  /\ run.builds < MaxBuilds
  /\ run.builds <= run.calls
  /\ ast' = Build(raw)
  /\ out' = IF IsErr(ast') THEN Out("parse", Null, BuildError(raw)) ELSE out
  /\ run' = [run EXCEPT !.builds = @ + 1]
  /\ UNCHANGED <<raw, env, files, walk>>

\* The results of a call with what the call draws, one result per branch.
Drawn(r, call, rand) ==
  [r EXCEPT !.vals = [b \in 1..Len(r.vals) |-> Resolve(r.vals[b], call, b, rand, <<>>)]]

\* The temporary folders after a call: those of its results are there.
Made(r, rand) ==
  MakeDirs([dirs |-> run.dirs, log |-> run.log],
           Flatten([b \in 1..Len(r.vals) |-> Folders(r.vals[b], rand, <<>>)]))

\* The process after a call: one call more, the folders, the call before.
After(st) ==
  [calls |-> run.calls + 1, builds |-> run.builds, built |-> run.builds,
   dirs |-> st.dirs, log |-> st.log,
   prev |-> [op |-> out.op, ctx |-> out.ctx, built |-> run.built,
             err |-> out.err, vals |-> out.vals]]

\* A call has run: its results are given back, the process goes on.
Ran(op, ctx, rand, r) ==
  /\ out' = Out(op, ctx, Drawn(r, run.calls + 1, rand))
  /\ run' = After(Made(r, rand))

\* process(context) or process_all(context), with the random name that the
\* call draws for its unnamed temporary folders.
Evaluate(op, ctx, rand) ==
  /\ ast # NoNode
  /\ ~ IsErr(ast)
  /\ run.calls < MaxCalls
  /\ Ran(op, ctx, rand, Visit(ast, EvalState(ctx, env, files, op = "process_all")))
  /\ UNCHANGED <<raw, env, files, ast, walk>>

UtilNext ==
  \/ BuildAst
  \/ \E op \in {"process", "process_all"}, ctx \in UtilContexts, rand \in RandNames :
       Evaluate(op, ctx, rand)

UtilSpec == UtilInit /\ [][UtilNext]_vars

(***************************************************************************)
(* The walk over the imports, step by step.  Building, processing and      *)
(* inspecting a configuration all descend into the files it imports with   *)
(* one stack of the files being imported: a frame per file, with the       *)
(* imports of the file that are still to be followed.  An import of a      *)
(* file that is on the stack is a cycle.  Every step counts.               *)
(***************************************************************************)
\* The files a structure imports, in source order.
RECURSIVE ImportsOf(_)
ImportsOf(node) ==
  IF node.n = "Import" THEN <<node.path.data>>
  ELSE IF node.n = "List"
  THEN Flatten([i \in 1..Len(node.nodes) |-> ImportsOf(node.nodes[i])])
  ELSE IF node.n = "Dict"
  THEN Flatten([i \in 1..Len(node.nodes) |->
                  ImportsOf(node.nodes[i][1]) \o ImportsOf(node.nodes[i][2])])
  ELSE <<>>

Frame(name, todo) == [name |-> name, todo |-> todo]

\* Only the importing file is compared with the file to import.
OnTop(frames, name) == frames[Len(frames)].name = name

\* A file is taken for a cycle when it has been imported before.
Imported(frames, name) == name \in walk.imports

\* Is the file among the files being imported.
OnStack(frames, name) == \E i \in 1..Len(frames) : frames[i].name = name

Modes == {"build", "process", "inspect"}

ImportInit ==
  /\ raw \in ImportRaws
  /\ env = <<>>
  /\ files \in FileSystems \cup {DiamondFolder}
  /\ ast = NoNode
  /\ out = NoOut
  /\ walk = Idle
  /\ run = NoRun

\* build(raw), process(ast, context) or inspect(ast) is called.
Enter(mode) ==
  /\ walk.status = "idle"
  /\ ast' = Build(raw)
  /\ walk' = [mode |-> mode, status |-> "running",
              frames |-> <<Frame(Null, ImportsOf(ast'))>>, imports |-> {},
              trail |-> <<>>, steps |-> 1]
  /\ UNCHANGED <<raw, env, files, out, run>>

\* The next import of the file on top: the file is read and entered.
Descend ==
  /\ walk.status = "running"
  /\ walk.frames[Len(walk.frames)].todo # <<>>
  /\ LET top == Len(walk.frames)
         name == Head(walk.frames[top].todo)
     IN /\ ~ OnStack(walk.frames, name)
        /\ KeyIndex(files, name) > 0
        /\ walk' = [walk EXCEPT
                      !.frames = Append([@ EXCEPT ![top].todo = Tail(@)],
                                        Frame(name, ImportsOf(Build(Lookup(files, name, Null))))),
                      !.imports = @ \cup {name},
                      !.trail = Append(@, name),
                      !.steps = @ + 1]
  /\ UNCHANGED <<raw, env, files, ast, out, run>>

\* The next import of the file on top cannot be followed: the walk fails.
Reject ==
  /\ walk.status = "running"
  /\ walk.frames[Len(walk.frames)].todo # <<>>
  /\ LET top == Len(walk.frames)
         name == Head(walk.frames[top].todo)
     IN /\ OnStack(walk.frames, name) \/ KeyIndex(files, name) = 0
        /\ walk' = [walk EXCEPT
                      !.status = IF OnStack(walk.frames, name) THEN "CyclicImportError"
                                 ELSE "FileNotFoundError",
                      !.steps = @ + 1]
  /\ UNCHANGED <<raw, env, files, ast, out, run>>

\* The file on top has no import left: back to the file that imported it.
Return ==
  /\ walk.status = "running"
  /\ walk.frames[Len(walk.frames)].todo = <<>>
  /\ walk' = [walk EXCEPT
                !.frames = SubSeq(@, 1, Len(@) - 1),
                !.status = IF Len(walk.frames) = 1 THEN "done" ELSE @,
                !.steps = @ + 1]
  /\ UNCHANGED <<raw, env, files, ast, out, run>>

ImportNext ==
  \/ \E mode \in Modes : Enter(mode)
  \/ Descend
  \/ Reject
  \/ Return

ImportSpec == ImportInit /\ [][ImportNext]_vars

(***************************************************************************)
(* The walk of the processor over the loops, step by step: a frame is a    *)
(* node being visited, the stack of loop scopes it is visited with and the *)
(* nodes it has still to visit; a loop visits its body once per iteration, *)
(* every time with the scope of the iteration on the stack.                *)
(***************************************************************************)
\* Loops inside loops, with no identifier, with x and y, and with x twice;
\* a loop followed by a sibling that reads a loop, alone, inside a loop y
\* and as the cases of a sweep.
ScopeLeaves ==
  {StrV(<<"$">> \o N_index), UtilStr(N_index, W_x), UtilStr(N_item, W_y \o <<".">> \o W_name)}
LoopOf(it, id, body) == DictV(<< <<ForKey(it, id), ListV(body)>> >>)
ScopeRaws ==
  {LoopOf(W_2, a, <<LoopOf(W_items, b, <<leaf>>)>>) :
     a \in {<<>>, W_x}, b \in {<<>>, W_x, W_y}, leaf \in ScopeLeaves}
  \cup {ListV(<<LoopOf(W_2, W_x, <<UtilStr(N_index, W_x)>>), leaf>>) :
           leaf \in ScopeLeaves}
  \cup {LoopOf(W_items, W_y, <<LoopOf(W_2, W_x, <<UtilStr(N_index, W_x)>>), leaf>>) :
           leaf \in ScopeLeaves}
  \cup {SweepExt(<<LoopOf(W_2, W_x, <<UtilStr(N_index, W_x)>>), leaf>>) :
           leaf \in ScopeLeaves \cup {IntV(7)}}
ScopeContexts ==
  {DictV(<<>>),
   DictV(<< <<StrV(W_items),
              ListV(<<DictV(<< <<StrV(W_name), StrV(W_Luna)>> >>),
                      DictV(<< <<StrV(W_name), StrV(W_Milo)>> >>)>>)>> >>)}

\* The items of a loop in a context, or the error of its iterable.
ForItems(node, ctx) ==
  LET it == node.iterable.data
      hit == PathGet(ctx, it)
      x == IF it.t = "int" THEN it ELSE hit.val
  IN [err |-> IF it.t # "int" /\ ~ hit.found THEN "MissingVariableError"
              ELSE IF x.t \notin {"int", "list"} THEN "TypeError"
              ELSE "",
      items |-> LoopItems(x)]

ForId(node, scopes) ==
  IF node.identifier = NoNode THEN AutoId(scopes) ELSE node.identifier.data

Task(node, scopes) == [node |-> node, scopes |-> scopes]

\* A walk whose list keeps the last scope of a loop for what follows it.
TasksKept(node, scopes, ctx) ==
  IF node.n = "For"
  THEN LET items == ForItems(node, ctx).items
       IN [i \in 1..Len(items) |->
             Task(node.body,
                  PushScope([scopes |-> scopes, ctx |-> ctx],
                            ForId(node, scopes), i - 1, items[i]).scopes)]
  ELSE [i \in 1..Len(Children(node)) |->
          Task(Children(node)[i],
               IF i > 1 /\ Children(node)[i - 1].n = "For"
               THEN Append(scopes, Scope(ForId(Children(node)[i - 1], scopes), 1, Null))
               ELSE scopes)]

\* What a node visits, in order, and with which scopes: a loop its body
\* once per item, under the scope of the iteration; every other node its
\* children under its own scopes.
Tasks(node, scopes, ctx) ==
  IF node.n = "For"
  THEN LET items == ForItems(node, ctx).items
       IN [i \in 1..Len(items) |->
             Task(node.body,
                  PushScope([scopes |-> scopes, ctx |-> ctx],
                            ForId(node, scopes), i - 1, items[i]).scopes)]
  ELSE [i \in 1..Len(Children(node)) |-> Task(Children(node)[i], scopes)]

\* The scope a $index or a $item reads, 0 if there is none: the loop is
\* the identifier, or what comes before its first dot.
ScopeRead(node, scopes) ==
  LET id == IF node.identifier = NoNode THEN Null ELSE node.identifier.data
      loop == IF id.t = "str" THEN StrV(Split(id.v, ".")[1]) ELSE id
  IN FindScope(scopes, loop, Len(scopes))

\* The path of a $item into the item of its loop.
ItemPath(node) ==
  IF node.identifier = NoNode \/ node.identifier.data.t # "str" THEN <<>>
  ELSE Tail(Split(node.identifier.data.v, "."))

\* The error a node raises when its visit begins, "" if it raises none.
NodeErr(node, scopes, ctx) ==
  IF node.n = "For" THEN ForItems(node, ctx).err
  ELSE IF node.n \notin {"Index", "Item"} THEN ""
  ELSE IF ScopeRead(node, scopes) = 0 THEN "LoopScopeError"
  ELSE IF node.n = "Item"
          /\ ~ DeepGet(scopes[ScopeRead(node, scopes)].item, ItemPath(node)).found
  THEN "LoopScopeError"
  ELSE ""

LoopFrame(node, scopes, ctx) ==
  [node |-> node, scopes |-> scopes, todo |-> Tasks(node, scopes, ctx)]

LoopIdle == [status |-> "idle", ctx |-> Null, frames |-> <<>>, steps |-> 0]

LoopInit ==
  /\ raw \in ScopeRaws
  /\ env = <<>>
  /\ files = <<>>
  /\ ast = NoNode
  /\ out = NoOut
  /\ walk = LoopIdle
  /\ run = NoRun

\* The caller of the walk: it has the root to visit, with no scope.
Caller(root) ==
  [node |-> [n |-> "Caller"], scopes |-> <<>>, todo |-> <<Task(root, <<>>)>>]

\* process_all(context) is called on the configuration, for the first
\* time or after a call that has returned or raised.
Begin(ctx) ==
  /\ walk.status # "running"
  /\ run.calls < MaxCalls
  /\ ast' = Build(raw)
  /\ walk' = [status |-> "running", ctx |-> ctx,
              frames |-> <<Caller(ast')>>, steps |-> 1]
  /\ run' = [run EXCEPT !.calls = @ + 1]
  /\ UNCHANGED <<raw, env, files, out>>

\* The node on top visits the next of its nodes.
Visits ==
  /\ walk.status = "running"
  /\ walk.frames[Len(walk.frames)].todo # <<>>
  /\ LET top == Len(walk.frames)
         todo == walk.frames[top].todo
         task == Head(todo)
     IN /\ NodeErr(task.node, task.scopes, walk.ctx) = ""
        /\ walk' = [walk EXCEPT
                      !.frames = Append([walk.frames EXCEPT ![top].todo = Tail(todo)],
                                        LoopFrame(task.node, task.scopes, walk.ctx)),
                      !.steps = @ + 1]
  /\ UNCHANGED <<raw, env, files, ast, out, run>>

\* The next node raises: the call ends with its error.
Raises ==
  /\ walk.status = "running"
  /\ walk.frames[Len(walk.frames)].todo # <<>>
  /\ LET task == Head(walk.frames[Len(walk.frames)].todo)
     IN /\ NodeErr(task.node, task.scopes, walk.ctx) # ""
        /\ walk' = [walk EXCEPT
                      !.status = NodeErr(task.node, task.scopes, walk.ctx),
                      !.steps = @ + 1]
  /\ out' = Out("process_all", walk.ctx, ProcessAll(ast, walk.ctx, env, files))
  /\ UNCHANGED <<raw, env, files, ast, run>>

\* The node on top has visited all its nodes: back to the node that visits
\* it, or, from the root, to the caller with the results.
Finishes ==
  /\ walk.status = "running"
  /\ walk.frames[Len(walk.frames)].todo = <<>>
  /\ walk' = [walk EXCEPT
                !.frames = SubSeq(walk.frames, 1, Len(walk.frames) - 1),
                !.status = IF Len(walk.frames) = 1 THEN "done" ELSE @,
                !.steps = @ + 1]
  /\ out' = IF Len(walk.frames) = 1
            THEN Out("process_all", walk.ctx, ProcessAll(ast, walk.ctx, env, files))
            ELSE out
  /\ UNCHANGED <<raw, env, files, ast, run>>

LoopNext ==
  \/ \E ctx \in ScopeContexts : Begin(ctx)
  \/ Visits
  \/ Raises
  \/ Finishes

LoopSpec == LoopInit /\ [][LoopNext]_vars

(***************************************************************************)
(* What the claims speak about, read off the raw structure itself.         *)
(***************************************************************************)
\* The value at a path of a structure: a step is a key or a list index.
RECURSIVE ValueAt(_, _)
ValueAt(x, path) ==
  IF path = <<>> THEN x
  ELSE IF x.t = "list" /\ path[1].t = "int" /\ path[1].v \in 1..Len(x.v)
  THEN ValueAt(x.v[path[1].v], Tail(path))
  ELSE IF x.t = "dict" /\ KeyIndex(x.v, path[1]) > 0
  THEN ValueAt(Lookup(x.v, path[1], Null), Tail(path))
  ELSE [t |-> "missing", v |-> 0]

\* The names of the directives of a string, in order.
DirectivesOf(x) ==
  IF x.t # "str" THEN <<>>
  ELSE LET toks == SelectSeq(Scan(x.v), LAMBDA tok : tok.k # "text")
       IN [i \in 1..Len(toks) |-> toks[i].name]

IsSweepStr(x) == DirectivesOf(x) = <<N_sweep>> /\ Len(Scan(x.v)) = 1
IsSweepExt(x) ==
  x.t = "dict" /\ Lookup(x.v, StrV(D_directive), Null) = StrV(N_sweep)

\* The values a sweep runs over, in source order.
SweepValues(x) ==
  IF IsSweepExt(x) THEN Lookup(x.v, StrV(D_args), ListV(<<>>)).v
  ELSE PosArgs(ArgPieces(Scan(x.v)[1].args))

\* The sweeps of a structure that lie in no other sweep, in source order,
\* each with its path and its values.
RECURSIVE SweepSites(_, _)
RECURSIVE SweepSitesFrom(_, _, _)
SweepSitesFrom(x, path, i) ==
  IF i > Len(x.v) THEN <<>>
  ELSE (IF x.t = "list" THEN SweepSites(x.v[i], Append(path, IntV(i)))
        ELSE SweepSites(x.v[i][2], Append(path, x.v[i][1])))
       \o SweepSitesFrom(x, path, i + 1)
SweepSites(x, path) ==
  IF IsSweepStr(x) \/ IsSweepExt(x)
  THEN <<[path |-> path, vals |-> SweepValues(x), ext |-> IsSweepExt(x)]>>
  ELSE IF x.t \in {"list", "dict"} THEN SweepSitesFrom(x, path, 1)
  ELSE <<>>

\* The names of the directives that the strings and keys of a structure hold.
RECURSIVE Mentioned(_)
Mentioned(x) ==
  IF x.t = "str" THEN {DirectivesOf(x)[i] : i \in 1..Len(DirectivesOf(x))}
  ELSE IF x.t = "list" THEN UNION {Mentioned(x.v[i]) : i \in 1..Len(x.v)}
  ELSE IF x.t = "dict"
  THEN UNION {Mentioned(x.v[i][1]) \cup Mentioned(x.v[i][2]) : i \in 1..Len(x.v)}
       \cup (IF Lookup(x.v, StrV(D_directive), Null).t = "str"
             THEN {Lookup(x.v, StrV(D_directive), Null).v} ELSE {})
  ELSE {}

Mentions(x, name) == name \in Mentioned(x)

\* No directive at all: no "$name" of a directive, no "$"-key.
RECURSIVE IsPlain(_)
IsPlain(x) ==
  IF x.t = "str" THEN DirectivesOf(x) = <<>> /\ ~ HasErrTok(Scan(x.v))
  ELSE IF x.t = "list" THEN \A i \in 1..Len(x.v) : IsPlain(x.v[i])
  ELSE IF x.t = "dict"
  THEN \A i \in 1..Len(x.v) :
         /\ IsPlain(x.v[i][1]) /\ IsPlain(x.v[i][2])
         /\ x.v[i][1] \notin {StrV(D_directive), StrV(D_call), StrV(D_model)}
  ELSE TRUE

\* Only literals and sweeps: every directive of the structure is a sweep.
OnlySweeps(x) == Mentioned(x) \subseteq {N_sweep}

\* The sweeps lie in mappings and sequences, none inside another.
FlatSweeps(x) ==
  /\ OnlySweeps(x)
  /\ LET sites == SweepSites(x, <<>>)
     IN \A i \in 1..Len(sites) : ~ sites[i].ext

RECURSIVE ProdSeq(_)
ProdSeq(ns) == IF ns = <<>> THEN 1 ELSE ns[1] * ProdSeq(Tail(ns))

RECURSIVE SumSeq(_)
SumSeq(ns) == IF ns = <<>> THEN 0 ELSE ns[1] + SumSeq(Tail(ns))

Arities(sites) == [j \in 1..Len(sites) |-> Len(sites[j].vals)]

(***************************************************************************)
(* C1: a raw structure without directives is processed to itself, key      *)
(* order and sequence order included, whatever the context.                *)
(***************************************************************************)
C1_RoundTrip ==
  (out.op = "process" /\ IsPlain(raw)) =>
    (out.err = "" /\ out.vals = <<raw>>)

C1_Witness ==
  /\ out.op = "process"
  /\ IsPlain(raw)
  /\ raw.t = "dict"
  /\ Len(raw.v) = 2
  /\ raw.v[2][2].t \in {"dict", "list"}
  /\ out.ctx # DictV(<<>>)

(***************************************************************************)
(* C2: with sweeps of arities a1..ak, none inside another, process_all     *)
(* gives a1 * ... * ak results, one for every combination of one value     *)
(* per sweep, at whatever depth the sweeps lie.                            *)
(***************************************************************************)
C2_ProductCount ==
  (out.op = "process_all" /\ FlatSweeps(raw)) =>
    LET sites == SweepSites(raw, <<>>)
        k == Len(sites)
        choices == {c \in [1..k -> 1..(MaxArity + 1)] :
                      \A j \in 1..k : c[j] <= Len(sites[j].vals)}
    IN /\ out.err = ""
       /\ Len(out.vals) = ProdSeq(Arities(sites))
       /\ \A c \in choices :
            \E i \in 1..Len(out.vals) :
              \A j \in 1..k :
                ValueAt(out.vals[i], sites[j].path) = sites[j].vals[c[j]]

C2_Witness ==
  /\ out.op = "process_all"
  /\ FlatSweeps(raw)
  /\ Len(SweepSites(raw, <<>>)) = 2
  /\ Len(SweepSites(raw, <<>>)[1].path) # Len(SweepSites(raw, <<>>)[2].path)
  /\ Len(out.vals) = MaxArity * MaxArity

(***************************************************************************)
(* C3: a sweep inside one case of another sweep adds its axis to the       *)
(* results of that case only: the number of results is the sum over the    *)
(* outer cases of each case's own count, and a case without a sweep is     *)
(* not multiplied by the sweeps of its sibling cases.                      *)
(***************************************************************************)
\* The number of results a structure of literals and sweeps stands for.
RECURSIVE NestedCount(_)
NestedCount(x) ==
  IF IsSweepStr(x) THEN Len(SweepValues(x))
  ELSE IF IsSweepExt(x)
  THEN SumSeq([i \in 1..Len(SweepValues(x)) |-> NestedCount(SweepValues(x)[i])])
  ELSE IF x.t = "list" THEN ProdSeq([i \in 1..Len(x.v) |-> NestedCount(x.v[i])])
  ELSE IF x.t = "dict" THEN ProdSeq([i \in 1..Len(x.v) |-> NestedCount(x.v[i][2])])
  ELSE 1

\* Some sweep of the structure holds another sweep in one of its cases.
HasNestedSweep(x) ==
  LET sites == SweepSites(x, <<>>)
  IN \E j \in 1..Len(sites) :
       sites[j].ext /\ \E c \in 1..Len(sites[j].vals) :
                         SweepSites(sites[j].vals[c], <<>>) # <<>>

C3_NestedLocality ==
  (out.op = "process_all" /\ OnlySweeps(raw) /\ HasNestedSweep(raw)) =>
    /\ out.err = ""
    /\ Len(out.vals) = NestedCount(raw)
    /\ \A site \in {SweepSites(raw, <<>>)[j] : j \in 1..Len(SweepSites(raw, <<>>))} :
         LET others == NestedCount(raw) \div NestedCount(ValueAt(raw, site.path))
         IN site.ext =>
              \A c \in 1..Len(site.vals) :
                IsPlain(site.vals[c]) =>
                  Cardinality({i \in 1..Len(out.vals) :
                                 ValueAt(out.vals[i], site.path) = site.vals[c]})
                  = others * Cardinality({d \in 1..Len(site.vals) :
                                            site.vals[d] = site.vals[c]})

C3_Witness ==
  /\ out.op = "process_all"
  /\ OnlySweeps(raw)
  /\ Len(SweepSites(raw, <<>>)) = 1
  /\ LET site == SweepSites(raw, <<>>)[1]
     IN /\ site.ext
        /\ Len(site.vals) = 2
        /\ NestedCount(site.vals[1]) = MaxArity
        /\ IsPlain(site.vals[2])
        /\ Len(out.vals) = MaxArity + 1
        /\ Len(out.vals) # Len(site.vals) * MaxArity

(***************************************************************************)
(* C4: the order of the results of process_all.  As claimed: the first     *)
(* sweep in source order varies slowest and the last fastest.  As the      *)
(* processor does it: the first sweep varies fastest and the last slowest. *)
(***************************************************************************)
\* The value of sweep j in result number i when the first sweep varies slowest.
SlowestFirst(i, j, ar) ==
  (((i - 1) \div ProdSeq(SubSeq(ar, j + 1, Len(ar)))) % ar[j]) + 1

\* The value of sweep j in result number i when the first sweep varies fastest.
FastestFirst(i, j, ar) ==
  (((i - 1) \div ProdSeq(SubSeq(ar, 1, j - 1))) % ar[j]) + 1

C4_LeftmostSlowest ==
  (out.op = "process_all" /\ FlatSweeps(raw)) =>
    LET sites == SweepSites(raw, <<>>)
    IN \A i \in 1..Len(out.vals) : \A j \in 1..Len(sites) :
         ValueAt(out.vals[i], sites[j].path)
         = sites[j].vals[SlowestFirst(i, j, Arities(sites))]

C4_LeftmostFastest ==
  (out.op = "process_all" /\ FlatSweeps(raw)) =>
    LET sites == SweepSites(raw, <<>>)
    IN /\ Len(out.vals) = ProdSeq(Arities(sites))
       /\ \A i \in 1..Len(out.vals) : \A j \in 1..Len(sites) :
            ValueAt(out.vals[i], sites[j].path)
            = sites[j].vals[FastestFirst(i, j, Arities(sites))]

C4_Witness ==
  /\ out.op = "process_all"
  /\ FlatSweeps(raw)
  /\ Len(SweepSites(raw, <<>>)) = 2
  /\ \A j \in 1..2 : Len(SweepSites(raw, <<>>)[j].vals) = MaxArity
  /\ SweepSites(raw, <<>>)[1].vals # SweepSites(raw, <<>>)[2].vals
  /\ Len(out.vals) = MaxArity * MaxArity

(***************************************************************************)
(* C5: process, which does not branch, on a structure with a sweep.  As    *)
(* claimed: it fails with a BranchingViolationError.  As the processor     *)
(* does it: the sweep is disabled, process gives one result and the sweep  *)
(* stays in it as a directive that parses to the same sweep, none of its   *)
(* values taking its place.                                                *)
(***************************************************************************)
C5_ProcessFails ==
  (out.op = "process" /\ OnlySweeps(raw) /\ SweepSites(raw, <<>>) # <<>>) =>
    out.err = "BranchingViolationError"

C5_SweepDisabled ==
  (out.op = "process" /\ OnlySweeps(raw) /\ SweepSites(raw, <<>>) # <<>>) =>
    /\ out.err = ""
    /\ Len(out.vals) = 1
    /\ \A site \in {SweepSites(raw, <<>>)[j] : j \in 1..Len(SweepSites(raw, <<>>))} :
            /\ Build(ValueAt(out.vals[1], site.path)) = Build(ValueAt(raw, site.path))
            /\ \A c \in 1..Len(site.vals) :
                 ValueAt(out.vals[1], site.path) # site.vals[c]

C5_Witness ==
  /\ out.op = "process"
  /\ OnlySweeps(raw)
  /\ Len(SweepSites(raw, <<>>)) = 2
  /\ Len(SweepSites(raw, <<>>)[1].path) = 2
  /\ out.err = ""

(***************************************************************************)
(* C6: without a sweep there is no branching: a successful process_all of  *)
(* a structure that holds no sweep gives exactly one result.               *)
(***************************************************************************)
C6_OneResult ==
  (out.op = "process_all" /\ out.err = "" /\ ~ Mentions(raw, N_sweep)) =>
    Len(out.vals) = 1

C6_Witness ==
  /\ out.op = "process_all"
  /\ out.err = ""
  /\ ~ Mentions(raw, N_sweep)
  /\ Mentions(raw, N_for)
  /\ Len(out.vals) = 1
  /\ out.vals[1].t = "dict"
  /\ out.vals[1].v[1][2].t = "list"
  /\ Len(out.vals[1].v[1][2].v) = 4

(***************************************************************************)
(* C7: $var(path, default=D, env=F) gives the value the context has at     *)
(* the dotted path; without one, and with env true, the value of the       *)
(* environment variable named by the last segment of the path in upper     *)
(* case; without that, D; and without a default it fails with a            *)
(* MissingVariableError that carries the dotted path.                      *)
(***************************************************************************)
\* The value a default is written for.
DefaultOf(d) == IF d = W_9 THEN IntV(9) ELSE StrV(d)

\* The last segment of a dotted path.
LastSegment(p) == Split(p, ".")[Len(Split(p, "."))]

\* What a variable with these arguments has to give for the last call.
VarExpected(p, d, f) ==
  LET hit == ValueAt(out.ctx, [i \in 1..Len(Split(p, ".")) |-> StrV(Split(p, ".")[i])])
      name == Upper(LastSegment(p))
  IN IF hit.t # "missing" THEN Ok(<<hit>>)
     ELSE IF f = K_True /\ KeyIndex(env, name) > 0
     THEN Ok(<<Lookup(env, name, Null)>>)
     ELSE IF d # <<>> THEN Ok(<<DefaultOf(d)>>)
     ELSE FailWith("MissingVariableError", StrV(p))

C7_VarFallback ==
  out.op \in {"process", "process_all"} =>
    \A p \in VarPaths, d \in VarDefaults, f \in VarEnvs :
      LET want == VarExpected(p, d, f)
      IN /\ raw = VarStr(p, d, f) =>
              /\ out.err = want.err
              /\ out.info = want.info
              /\ out.vals = want.vals
         /\ raw = DictV(<< <<Key(1), VarStr(p, d, f)>> >>) =>
              /\ out.err = want.err
              /\ out.info = want.info
              /\ out.vals = [i \in 1..Len(want.vals) |->
                               DictV(<< <<Key(1), want.vals[i]>> >>)]

\* The context has no a.b, the environment has B, and a default is given.
C7_Witness ==
  /\ out.op = "process"
  /\ raw = VarStr(W_ab, W_dd, K_True)
  /\ ValueAt(out.ctx, <<Key(1)>>).t = "dict"
  /\ ValueAt(out.ctx, <<Key(1), Key(2)>>).t = "missing"
  /\ KeyIndex(env, <<"B">>) > 0
  /\ out.vals = <<StrV(W_eb)>>

(***************************************************************************)
(* C8: a switch gives the body of the first entry, in source order, whose  *)
(* case value, or one of the values of its case list, equals the value of  *)
(* the key; later entries that match are ignored, and the default body is  *)
(* given only when no case matches.                                        *)
(***************************************************************************)
\* The entries of the switch of a structure of SwitchRaws.
SwitchOf(x) == x.v[1][2].v[1][2].v

\* Does the entry have a case that equals the value.
EntryMatches(entry, x) ==
  LET c == ValueAt(entry, <<StrV(D_case)>>)
  IN IF c.t = "list" THEN \E i \in 1..Len(c.v) : c.v[i] = x
     ELSE c.t # "missing" /\ c = x

\* The positions of the entries that match the value, and of the defaults.
Matching(cs, x) == {i \in 1..Len(cs) : EntryMatches(cs[i], x)}
Defaults(cs) == {i \in 1..Len(cs) : ValueAt(cs[i], <<StrV(D_dflt)>>).t # "missing"}

C8_FirstMatch ==
  (/\ out.op \in {"process", "process_all"}
   /\ raw \in SwitchRaws
   /\ ValueAt(out.ctx, <<StrV(W_nation)>>).t # "missing") =>
    LET cs == SwitchOf(raw)
        hits == Matching(cs, ValueAt(out.ctx, <<StrV(W_nation)>>))
        first == CHOOSE i \in hits : \A j \in hits : i <= j
    IN /\ hits # {} =>
            /\ out.err = ""
            /\ out.vals = <<DictV(<< <<Key(1), ValueAt(cs[first], <<StrV(D_then)>>)>> >>)>>
       /\ (hits = {} /\ Defaults(cs) # {}) =>
            /\ out.err = ""
            /\ \E i \in Defaults(cs) :
                 out.vals = <<DictV(<< <<Key(1), ValueAt(cs[i], <<StrV(D_dflt)>>)>> >>)>>

\* Two entries match UK, a default comes before them: the first match is given.
C8_Witness ==
  /\ out.op = "process"
  /\ raw \in SwitchRaws
  /\ ValueAt(out.ctx, <<StrV(W_nation)>>) = StrV(W_UK)
  /\ Cardinality(Matching(SwitchOf(raw), StrV(W_UK))) = 2
  /\ Defaults(SwitchOf(raw)) = {1}
  /\ EntryMatches(SwitchOf(raw)[2], StrV(W_USA))
  /\ out.vals = <<DictV(<< <<Key(1), StrV(W_hello)>> >>)>>

(***************************************************************************)
(* C9: when the value of the key of a switch equals no case value and the  *)
(* switch has no default entry, evaluation fails with a                    *)
(* MissingSwitchCaseError and gives no value.                              *)
(***************************************************************************)
C9_NoCaseFails ==
  (/\ out.op \in {"process", "process_all"}
   /\ raw \in SwitchRaws
   /\ ValueAt(out.ctx, <<StrV(W_nation)>>).t # "missing"
   /\ Matching(SwitchOf(raw), ValueAt(out.ctx, <<StrV(W_nation)>>)) = {}
   /\ Defaults(SwitchOf(raw)) = {}) =>
    /\ out.err = "MissingSwitchCaseError"
    /\ out.vals = <<>>

\* The nation is FR and the switch has cases for other nations only.
C9_Witness ==
  /\ out.op = "process_all"
  /\ raw \in SwitchRaws
  /\ ValueAt(out.ctx, <<StrV(W_nation)>>) = StrV(W_FR)
  /\ Len(SwitchOf(raw)) = 2
  /\ Defaults(SwitchOf(raw)) = {}
  /\ out.err = "MissingSwitchCaseError"

(***************************************************************************)
(* C10: when the imports of a configuration form a cycle (a file that      *)
(* imports itself, A imports B imports A, ...), build, process and         *)
(* inspect each come to an end with a CyclicImportError.  None of them     *)
(* goes on forever: the stack never holds more than the files there are,   *)
(* a walk takes a bounded number of steps and a walk that has not ended    *)
(* can take a step.  Each of them fails with a CyclicImportError in        *)
(* exactly the cases in which the processor does.                          *)
(***************************************************************************)
\* The files a file imports, and the files reached from a set of files.
Edges(name) ==
  IF KeyIndex(files, name) = 0 THEN {}
  ELSE LET fs == ImportsOf(Build(Lookup(files, name, Null)))
       IN {fs[i] : i \in 1..Len(fs)}

RECURSIVE Closure(_, _)
Closure(S, n) ==
  IF n = 0 THEN S ELSE Closure(S \cup UNION {Edges(x) : x \in S}, n - 1)

Roots == {ImportsOf(Build(raw))[i] : i \in 1..Len(ImportsOf(Build(raw)))}

\* Some file that the configuration reaches imports itself through a chain.
HasCycle ==
  \E f \in Closure(Roots, MaxFiles) : f \in Closure(Edges(f), MaxFiles)

Ended == walk.status \notin {"idle", "running"}

\* A stack of at most MaxFiles + 1 frames of at most two imports each: the
\* steps into and out of every frame, and the call.
StepBound == 2 ^ (MaxFiles + 2)

Iterable(it, ctx) == IF it = W_2 THEN IntV(2) ELSE ValueAt(ctx, <<StrV(it)>>)
IterItems(it, ctx) ==
  IF Iterable(it, ctx).t = "int" THEN [i \in 1..Iterable(it, ctx).v |-> Null]
  ELSE Iterable(it, ctx).v

\* What the loop over the items has to give, by its body.
LoopExpected(b, items) ==
  LET n == Len(items)
  IN IF b = B_keys
     THEN DictV([i \in 1..n |-> <<StrV(<<"k">> \o IntStr(i - 1)), IntV(i - 1)>>])
     ELSE IF b = B_key
     THEN DictV(IF n = 0 THEN <<>> ELSE <<(<<StrV(<<"k">>), IntV(n - 1)>>)>>)
     ELSE IF b = B_list
     THEN ListV([j \in 1..(2 * n) |->
                   IF j % 2 = 1 THEN IntV((j - 1) \div 2) ELSE items[j \div 2]])
     ELSE StrV(Flatten([i \in 1..n |-> <<"c">> \o IntStr(i - 1) \o <<" ">>]))

C11_LoopAggregation ==
  out.op \in {"process", "process_all"} =>
    \A it \in {W_2, W_n, W_items}, b \in LoopBodies :
      (/\ raw = DictV(<< <<Key(1), DictV(<< <<ForKey(it, <<>>), b>> >>)>> >>)
       /\ Iterable(it, out.ctx).t \in {"int", "list"}
       /\ (b = B_list => it = W_items)) =>
        /\ out.err = ""
        /\ out.vals = <<DictV(<< <<Key(1), LoopExpected(b, IterItems(it, out.ctx))>> >>)>>

\* Two iterations write the same key: the value of the second is kept.
C11_Witness ==
  /\ out.op = "process"
  /\ raw = DictV(<< <<Key(1), DictV(<< <<ForKey(W_items, <<>>), B_key>> >>)>> >>)
  /\ Iterable(W_items, out.ctx).t = "list"
  /\ Len(IterItems(W_items, out.ctx)) = 2
  /\ out.vals = <<DictV(<< <<Key(1), DictV(<< <<StrV(<<"k">>), IntV(1)>> >>)>> >>)>>

(***************************************************************************)
(* C12: a string that mixes text and directives gives the concatenation,   *)
(* in order, of the text and of the results of the directives as text      *)
(* ("$var(x) is a $var(nation)" with x = 1, nation = UK gives              *)
(* "1 is a UK"); a string that is one directive and nothing else gives     *)
(* the value of the directive with its own type ("$var(x)" gives the       *)
(* integer 1, not "1").                                                    *)
(***************************************************************************)
\* The text of an integer or of a string.
TextOf(x) == IF x.t = "int" THEN IntStr(x.v) ELSE x.v

\* Has the context an integer or a string at the key.
HasText(ctx, key) == ValueAt(ctx, <<StrV(key)>>).t \in {"int", "str"}

C12_BundleOrNative ==
  out.op \in {"process", "process_all"} =>
    LET x == ValueAt(out.ctx, <<StrV(W_x)>>)
        nation == ValueAt(out.ctx, <<StrV(W_nation)>>)
        xs == VarStr(W_x, <<>>, <<>>).v
        ns == VarStr(W_nation, <<>>, <<>>).v
    IN /\ (raw = BundleStr(<<xs, W_is, ns>>) /\ HasText(out.ctx, W_x)
             /\ HasText(out.ctx, W_nation)) =>
            out.vals = <<StrV(TextOf(x) \o W_is \o TextOf(nation))>>
       /\ (raw = BundleStr(<<xs, ns>>) /\ HasText(out.ctx, W_x)
             /\ HasText(out.ctx, W_nation)) =>
            out.vals = <<StrV(TextOf(x) \o TextOf(nation))>>
       /\ (raw = BundleStr(<<W_neq, xs>>) /\ HasText(out.ctx, W_x)) =>
            out.vals = <<StrV(W_neq \o TextOf(x))>>
       /\ (raw = StrV(xs) /\ x.t # "missing") =>
            out.vals = <<x>>

\* The integer variable in a bundle: its text between the other fragments.
C12_Witness ==
  /\ out.op = "process"
  /\ ValueAt(out.ctx, <<StrV(W_x)>>) = IntV(1)
  /\ raw = BundleStr(<<VarStr(W_x, <<>>, <<>>).v, W_is, VarStr(W_nation, <<>>, <<>>).v>>)
  /\ out.vals = <<StrV(<<"1"," ","i","s"," ","a"," ","U","K">>)>>

(***************************************************************************)
(* C13: process and process_all do not change the context of the caller:   *)
(* the variables of a loop live on the stack of the loops only.  A         *)
(* variable named like a loop, read in the body of the loop and read       *)
(* after the loop, gives what the context of the caller holds, or its      *)
(* default, in every iteration and afterwards, whether the call succeeds   *)
(* or fails.                                                               *)
(***************************************************************************)
\* What $var(id, default=dd) gives on the context of the caller.
CallerValue(ctx, id) ==
  IF ValueAt(ctx, <<StrV(id)>>).t = "missing" THEN StrV(W_dd)
  ELSE ValueAt(ctx, <<StrV(id)>>)

Selected(cs, x) ==
  LET hits == Matching(cs, x)
  IN IF hits # {}
     THEN ValueAt(cs[CHOOSE i \in hits : \A j \in hits : i <= j], <<StrV(D_then)>>)
     ELSE ValueAt(cs[Len(cs)], <<StrV(D_dflt)>>)

\* Is the body a variable that the context does not have.
IsMissingVar(body, ctx) ==
  \E w \in {W_zz, W_x} :
    body = VarStr(w, <<>>, <<>>) /\ ValueAt(ctx, <<StrV(w)>>).t = "missing"

\* What a body gives on the context: a variable's value, or the text itself.
BodyValue(body, ctx) ==
  IF body = VarStr(W_x, <<>>, <<>>) THEN ValueAt(ctx, <<StrV(W_x)>>) ELSE body

C14_LazySwitch ==
  (/\ out.op \in {"process", "process_all"}
   /\ raw \in LazyRaws
   /\ ValueAt(out.ctx, <<StrV(W_nation)>>).t # "missing") =>
    LET sel == Selected(SwitchOf(raw), ValueAt(out.ctx, <<StrV(W_nation)>>))
        tail == raw.v[2][2]
    IN IF IsMissingVar(sel, out.ctx) \/ IsMissingVar(tail, out.ctx)
       THEN out.err = "MissingVariableError" /\ out.vals = <<>>
       ELSE /\ out.err = ""
            /\ out.vals = <<DictV(<< <<Key(1), BodyValue(sel, out.ctx)>>,
                                    <<Key(2), tail>> >>)>>

\* The nation is IT: the cases of UK and the default read zz, which no
\* context has, and the call gives ciao.
C14_Witness ==
  /\ out.op = "process"
  /\ raw = LazyRaw(<<CaseEntry(StrV(W_UK), VarStr(W_zz, <<>>, <<>>)),
                     CaseEntry(StrV(W_IT), StrV(W_ciao))>>,
                   DefaultEntry(VarStr(W_zz, <<>>, <<>>)), StrV(W_hi))
  /\ ValueAt(out.ctx, <<StrV(W_nation)>>) = StrV(W_IT)
  /\ out.vals = <<DictV(<< <<Key(1), StrV(W_ciao)>>, <<Key(2), StrV(W_hi)>> >>)>>

(***************************************************************************)
(* C15: inspect needs no context and gives its report with no error        *)
(* whenever the files that the configuration imports, directly or through  *)
(* other files, all exist and no file imports itself through a chain,      *)
(* whatever variables, environment variables, loop iterables and symbols   *)
(* the configuration reads: a variable with no default is reported with    *)
(* null, not raised.  inspect fails only on a missing file or a cycle.     *)
(***************************************************************************)
\* Every file that the configuration reaches is in the folder.
AllExist == \A f \in Closure(Roots, MaxFiles) : KeyIndex(files, f) > 0

C15_InspectSucceeds ==
  out.op = "inspect" =>
    /\ out.ctx = Null
    /\ (AllExist /\ ~ HasCycle) => out.err = "" /\ out.info.imports = Closure(Roots, MaxFiles)
    /\ out.err # "" =>
         /\ out.err = (IF ~ AllExist THEN "FileNotFoundError" ELSE "CyclicImportError")
         /\ ~ AllExist \/ HasCycle

\* A configuration that reads zz and imports a file that reads nation, no
\* default for either: the report holds both with null.
C15_Witness ==
  /\ out.op = "inspect"
  /\ out.err = ""
  /\ raw = InspectRaw(VarStr(W_zz, <<>>, <<>>))
  /\ Lookup(files, FileName(1), Null) = VarStr(W_nation, <<>>, <<>>)
  /\ out.info.variables = DictV(<< <<StrV(W_nation), Null>>, <<StrV(W_zz), Null>> >>)
  /\ out.info.imports = {FileName(1)}

(***************************************************************************)
(* C16: the variables of the report of inspect hold, at its dotted path,   *)
(* every variable that the configuration reads, in every entry of a        *)
(* switch, in the bodies of loops and in the files imported, and every     *)
(* loop iterable that is a path; each with its declared default, or null.  *)
(* A variable with env=True is in environ as well.  The variables          *)
(* structure can be passed as the context.                                 *)
(***************************************************************************)
\* The variables and loop iterables written in a raw structure and in the
\* files it imports: the path, the default or null, and the env flag.
RECURSIVE RawUses(_, _)
RECURSIVE TokUses(_, _)
TokUses(tok, depth) ==
  IF tok.k = "text" THEN {}
  ELSE LET pos == PosArgs(ArgPieces(tok.args))
           kw == KwArgs(ArgPieces(tok.args))
       IN IF tok.name = N_var
          THEN {[path |-> pos[1],
                 default |-> IF Len(pos) >= 2 THEN pos[2] ELSE Lookup(kw, K_default, Null),
                 env |-> Lookup(kw, K_env, BoolV(FALSE)) = BoolV(TRUE)]}
          ELSE IF tok.name = N_for /\ pos[1].t = "str"
          THEN {[path |-> pos[1], default |-> Null, env |-> FALSE]}
          ELSE IF tok.name = N_import /\ depth > 0 /\ KeyIndex(files, pos[1]) > 0
          THEN RawUses(Lookup(files, pos[1], Null), depth - 1)
          ELSE {}

RawUses(x, depth) ==
  IF x.t = "str" THEN UNION {TokUses(Scan(x.v)[i], depth) : i \in 1..Len(Scan(x.v))}
  ELSE IF x.t = "list" THEN UNION {RawUses(x.v[i], depth) : i \in 1..Len(x.v)}
  ELSE IF x.t = "dict" /\ KeyIndex(x.v, StrV(D_directive)) > 0
          /\ \A i \in 1..Len(x.v) : ~ IsKeyValueForm(x.v[i][1])
  THEN LET args == Lookup(x.v, StrV(D_args), ListV(<<>>)).v
       IN IF Lookup(x.v, StrV(D_directive), Null) = StrV(N_var)
          THEN {[path |-> args[1],
                 default |-> IF Len(args) >= 2 THEN args[2] ELSE Null,
                 env |-> FALSE]}
          ELSE UNION {RawUses(args[i], depth) : i \in 1..Len(args)}
  ELSE IF x.t = "dict"
  THEN UNION {RawUses(x.v[i][1], depth) \cup RawUses(x.v[i][2], depth) : i \in 1..Len(x.v)}
  ELSE {}

\* The keys of a dotted path.
KeysOf(path) == [i \in 1..Len(Split(path.v, ".")) |-> StrV(Split(path.v, ".")[i])]

DrawsNothing == Mentioned(raw) \cap {N_uuid, N_tmp} = {}

TmpPlaces(name) == {k \in 1..2 : raw.v[k][2] = UtilStr(N_tmp, name)}

RECURSIVE UuidSeq(_)
UuidSeq(x) ==
  IF x.t = "uuid4" THEN <<x>>
  ELSE IF x.t = "dict" THEN Flatten([i \in 1..Len(x.v) |-> UuidSeq(x.v[i][2])])
  ELSE IF x.t = "list" THEN Flatten([i \in 1..Len(x.v) |-> UuidSeq(x.v[i])])
  ELSE <<>>
Uuids(x) == {UuidSeq(x)[i] : i \in 1..Len(UuidSeq(x))}

LeafValue(leaf, xs, ys, i, j) ==
  IF leaf \in {StrV(<<"$">> \o N_index), UtilStr(N_index, W_y)} THEN IntV(j - 1)
  ELSE IF leaf = UtilStr(N_index, W_x) THEN IntV(i - 1)
  ELSE IF leaf \in {StrV(<<"$">> \o N_item), UtilStr(N_item, W_y)} THEN ys[j]
  ELSE IF leaf = UtilStr(N_item, W_x) THEN xs[i]
  ELSE IF leaf = UtilStr(N_item, W_x \o <<".">> \o W_name)
  THEN ValueAt(xs[i], <<StrV(W_name)>>)
  ELSE ValueAt(ys[j], <<StrV(W_name)>>)

C18_LoopScopes ==
  out.op \in {"process", "process_all"} =>
    \A its \in {<<W_items, W_2>>, <<W_2, W_items>>}, leaf \in Leaves :
      (/\ raw = NestedLoop(its[1], its[2], leaf)
       /\ Iterable(W_items, out.ctx).t = "list") =>
        LET xs == IterItems(its[1], out.ctx)
            ys == IterItems(its[2], out.ctx)
            rows == [i \in 1..Len(xs) |->
                       ListV([j \in 1..Len(ys) |-> LeafValue(leaf, xs, ys, i, j)])]
        IN IF \E i \in 1..Len(xs), j \in 1..Len(ys) :
                LeafValue(leaf, xs, ys, i, j).t = "missing"
           THEN out.err # "" /\ out.vals = <<>>
           ELSE /\ out.err = ""
                /\ out.vals = <<DictV(<< <<Key(1), ListV(rows)>> >>)>>

\* The name of the item of the outer loop, read in the inner loop.
C18_Witness ==
  /\ out.op = "process"
  /\ raw = NestedLoop(W_items, W_2, UtilStr(N_item, W_x \o <<".">> \o W_name))
  /\ out.vals = <<DictV(<< <<Key(1),
                   ListV(<<ListV(<<StrV(W_Luna), StrV(W_Luna)>>),
                           ListV(<<StrV(W_Milo), StrV(W_Milo)>>)>>)>> >>)>>

TokText(tok) ==
  IF tok.k = "text" THEN tok.args
  ELSE <<"$">> \o tok.name
       \o (IF tok.call THEN <<"(">> \o tok.args \o <<")">> ELSE <<>>)

\* The number of directives among the tokens.
DirCount(toks) == Len(SelectSeq(toks, LAMBDA t : t.k = "dir"))

\* The node of token t is node: the text itself, or a directive.
IsFragment(node, t) ==
  IF t.k = "text" THEN node = LiteralNode(StrV(t.args))
  ELSE node.n \notin {"Literal", "StrBundle", "Dict", "List"}

\* C22: build classifies a string by its directives: none gives a Literal
\* holding the string unchanged; one directive that spans the whole string
\* gives the node of the directive itself, not a StrBundle; anything else
\* (several directives, or a directive with text around it) gives a
\* StrBundle with one fragment per token, in order, and the texts of the
\* tokens put together give the string back.
C22_StringsClassified ==
  (raw.t = "str" /\ ast # NoNode /\ ~ IsErr(ast)) =>
    LET toks == Scan(raw.v)
    IN /\ Concat([i \in 1..Len(toks) |-> TokText(toks[i])]) = raw.v
       /\ IF DirCount(toks) = 0 THEN ast = LiteralNode(raw)
          ELSE IF Len(toks) = 1 THEN IsFragment(ast, toks[1])
          ELSE /\ ast.n = "StrBundle"
               /\ Len(ast.nodes) = Len(toks)
               /\ \A i \in 1..Len(toks) : IsFragment(ast.nodes[i], toks[i])

C22_Witness ==
  /\ raw = BundleStr(<<W_is, VarStr(W_x, <<>>, <<>>).v>>)
  /\ ast = StrBundleNode(<<LiteralNode(StrV(W_is)),
                           VarNode(LiteralNode(StrV(W_x)), NoNode, NoNode)>>)

\* s begins with p.
HasPrefix(s, p) == Len(s) >= Len(p) /\ SubSeq(s, 1, Len(p)) = p

\* The key is written $for(...) or $switch(...).
IsLoopOrSwitchKey(key) ==
  /\ key.t = "str"
  /\ \/ HasPrefix(key.v, <<"$">> \o N_for \o <<"(">>)
     \/ HasPrefix(key.v, <<"$">> \o N_switch \o <<"(">>)

IsFormKey(key) == key \in {StrV(D_directive), StrV(D_call), StrV(D_model)}

\* The entries a mapping was built to: those of a bundle, or the only one.
Entries(node) == IF node.n = "DictBundle" THEN node.nodes ELSE <<node>>

\* C23: in a mapping the keys are looked at first: with a $for or $switch
\* key the mapping is kept, one entry per pair in order, the pair of such a
\* key one For or Switch node and every other pair a plain pair built from
\* its key and its value, also when $directive, $args or $call are among
\* the keys.  Only a mapping without such keys is taken as one extended
\* or special form, a single directive node; every other mapping is a
\* Dict of its pairs, the values built recursively.
C23_KeyValueFormFirst ==
  (raw.t = "dict" /\ ast # NoNode /\ ~ IsErr(ast)) =>
    LET d == raw.v
    IN IF \E i \in 1..Len(d) : IsLoopOrSwitchKey(d[i][1])
       THEN /\ Len(Entries(ast)) = Len(d)
            /\ \A i \in 1..Len(d) :
                 IF IsLoopOrSwitchKey(d[i][1])
                 THEN Entries(ast)[i].n \in {"For", "Switch"}
                 ELSE Entries(ast)[i] =
                        DictNode(<< <<Build(d[i][1]), Build(d[i][2])>> >>)
       ELSE IF \E i \in 1..Len(d) : IsFormKey(d[i][1])
       THEN ast.n \notin {"Dict", "DictBundle", "List", "Literal", "StrBundle"}
       ELSE /\ ast.n = "Dict"
            /\ Len(ast.nodes) = Len(d)
            /\ \A i \in 1..Len(d) :
                 ast.nodes[i] = <<Build(d[i][1]), Build(d[i][2])>>

C23_Witness ==
  /\ raw = DictV(<< <<ForKey(W_2, <<>>), B_keys>>,
                    <<StrV(D_directive), StrV(N_var)>> >>)
  /\ ast.n = "DictBundle"
  /\ Len(ast.nodes) = 2
  /\ ast.nodes[1].n = "For"
  /\ ast.nodes[2] = DictNode(<< <<LiteralNode(StrV(D_directive)),
                                  LiteralNode(StrV(N_var))>> >>)

\* What one pair of a mixed mapping gives: itself, or a key per iteration
\* of $for(2), or the one key of the iterations of $for(n, x), n being 2.
W_k1 == <<"k","1">>
W_k == <<"k">>
PairGives(pair) ==
  IF pair[1] = ForKey(W_2, <<>>)
  THEN << <<StrV(W_k0), IntV(0)>>, <<StrV(W_k1), IntV(1)>> >>
  ELSE IF pair[1] = ForKey(W_n, W_x) THEN << <<StrV(W_k), IntV(1)>> >>
  ELSE <<pair>>

\* The union, in order, of what the pairs give.
RECURSIVE UnionOf(_, _)
UnionOf(d, acc) ==
  IF d = <<>> THEN acc ELSE UnionOf(Tail(d), DictUpdate(acc, PairGives(d[1])))

IsMixed(x) == x.t = "dict" /\ \A i \in 1..Len(x.v) : x.v[i] \in MixedEntries

\* C24: a mapping of plain pairs and loops in key-value form gives, in a
\* call that succeeds, one mapping: the union of the plain pairs and of the
\* mappings the loops give, every key at the place of the first pair of
\* the source that gave it, with the value of the last.
C24_DictBundleUnion ==
  (IsMixed(raw) /\ out.op \in {"process", "process_all"} /\ out.err = "") =>
    out.vals = <<DictV(UnionOf(raw.v, <<>>))>>

C24_Witness ==
  /\ raw = DictV(<< <<Key(1), IntV(7)>>, <<ForKey(W_2, <<>>), B_keys>>,
                    <<StrV(W_k0), StrV(W_plain)>> >>)
  /\ out.op = "process"
  /\ out.vals = <<DictV(<< <<Key(1), IntV(7)>>, <<StrV(W_k0), StrV(W_plain)>>,
                           <<StrV(W_k1), IntV(1)>> >>)>>

(***************************************************************************)
(* Errors of the parser.                                                   *)
(***************************************************************************)
\* The string has, at i, "$", a directive name and "(", and the next
\* parenthesis after it opens again.
NestedAt(s, i) ==
  \E name \in DirectiveNames :
    LET q == i + Len(name) + 1
    IN /\ q <= Len(s)
       /\ SubSeq(s, i, q) = <<"$">> \o name \o <<"(">>
       /\ \E j \in (q + 1)..Len(s) :
            /\ s[j] = "("
            /\ \A k \in (q + 1)..(j - 1) : s[k] \notin {"(", ")"}

\* A string anywhere in the raw structure holds such a call.
RECURSIVE HasNestedCall(_)
HasNestedCall(x) ==
  IF x.t = "str" THEN \E i \in 1..Len(x.v) : NestedAt(x.v, i)
  ELSE IF x.t = "list" THEN \E i \in 1..Len(x.v) : HasNestedCall(x.v[i])
  ELSE IF x.t = "dict"
  THEN \E i \in 1..Len(x.v) : HasNestedCall(x.v[i][1]) \/ HasNestedCall(x.v[i][2])
  ELSE FALSE

\* C25: a call form with parentheses inside its arguments, a directive or
\* a tuple, is a syntax error of the build, whatever is around it: there
\* is no AST, and so no shorter directive followed by text.
C25_NestedCallRejected ==
  (ast # NoNode /\ HasNestedCall(raw)) =>
    /\ IsErr(ast)
    /\ out.op = "parse"
    /\ out.err = "SyntaxError"

C25_Witness ==
  /\ raw = StrV(W_is \o W_nested)
  /\ IsErr(ast)
  /\ out.err = "SyntaxError"

\* The word that follows the "$" at i.
WordAt(s, i) == SubSeq(s, i + 1, IdEnd(s, i + 1) - 1)

\* The string has a "$" and none that is followed by the name of a
\* directive: what follows is no name at all, or another word.
OnlyLookAlikes(x) ==
  /\ x.t = "str"
  /\ \E i \in 1..Len(x.v) : x.v[i] = "$" /\ WordAt(x.v, i) # <<>>
  /\ \A i \in 1..Len(x.v) : x.v[i] = "$" => WordAt(x.v, i) \notin DirectiveNames

\* C26: a "$" and a word that is not the name of a directive, $variable
\* and $indexes too, is plain text: the string is built to a Literal
\* holding it, and every process and process_all call gives it unchanged.
C26_LookAlikesAreText ==
  (OnlyLookAlikes(raw) /\ ast # NoNode) =>
    /\ ast = LiteralNode(raw)
    /\ out.op # "parse"
    /\ out.op \in {"process", "process_all"} => out.err = "" /\ out.vals = <<raw>>

C26_Witness ==
  /\ raw = StrV(W_is \o W_indexes)
  /\ ast = LiteralNode(raw)
  /\ out.op = "process"
  /\ out.vals = <<raw>>

\* The value at a path of keys and positions.
RECURSIVE NodeAt(_, _)
NodeAt(x, path) ==
  IF path = <<>> THEN x
  ELSE IF x.t = "list" THEN NodeAt(x.v[path[1].v + 1], Tail(path))
  ELSE NodeAt(Lookup(x.v, path[1], Null), Tail(path))

\* C27: in a structure that holds a directive that cannot be parsed, beside
\* $tmp or $uuid directives that can, the build fails as a whole: there is
\* no AST, the syntax error has the path of the string at fault, no call
\* ever runs and no temporary folder is ever created.
C27_BuildFailsFirst ==
  raw \in BrokenRaws =>
    /\ run.calls = 0
    /\ run.dirs = {}
    /\ run.log = <<>>
    /\ run.builds > 0 =>
         /\ IsErr(ast)
         /\ out.op = "parse"
         /\ out.err = "SyntaxError"
         /\ out.vals = <<>>
         /\ NodeAt(raw, out.info) \in {StrV(W_nested), StrV(W_novar), StrV(W_tuple)}

C27_Witness ==
  /\ raw = ListV(<<UtilStr(N_tmp, W_x), UtilStr(N_tmp, W_x),
                   ListV(<<IntV(7), StrV(W_tuple)>>)>>)
  /\ run.builds = 1
  /\ IsErr(ast)
  /\ out.info = <<IntV(2), IntV(1)>>
  /\ run.dirs = {}

(***************************************************************************)
(* The stack of the loop scopes during a walk.                             *)
(***************************************************************************)
SameId(a, b) == a.t = b.t /\ a.v = b.v

\* Do two scopes of the stack of frame k have the same identifier.
Distinct(scopes) ==
  \A i, j \in 1..Len(scopes) : SameId(scopes[i].id, scopes[j].id) => i = j

\* A loop declares an identifier that a loop around it has declared.
RECURSIVE Redeclares(_, _)
Redeclares(node, ids) ==
  IF node.n = "For"
  THEN IF node.identifier = NoNode THEN Redeclares(node.body, ids)
       ELSE \/ node.identifier.data \in ids
            \/ Redeclares(node.body, ids \cup {node.identifier.data})
  ELSE \E i \in 1..Len(Children(node)) : Redeclares(Children(node)[i], ids)

ScopesOfVisitor(k) ==
  LET f == walk.frames[k]
      by == walk.frames[k - 1]
  IN IF by.node.n = "For"
     THEN /\ Len(f.scopes) = Len(by.scopes) + 1
          /\ SubSeq(f.scopes, 1, Len(by.scopes)) = by.scopes
          /\ SameId(f.scopes[Len(f.scopes)].id, ForId(by.node, by.scopes))
     ELSE f.scopes = by.scopes

\* A loop over x that reads its index, followed by a sibling.
LoopThen(leaf) == <<LoopOf(W_2, W_x, <<UtilStr(N_index, W_x)>>), leaf>>

WrittenIn(name) ==
  LET from == ImportsOf(Build(IF name = Null THEN raw ELSE Lookup(files, name, Null)))
  IN {from[i] : i \in 1..Len(from)}

\* C30: the stack of the imports is the chain being resolved and nothing
\* else: its files are pairwise distinct and each is imported by the file
\* below it, so a file whose import has completed is no longer on it.  A
\* file may then be imported again, by a sibling or through another file:
\* CyclicImportError is raised only when a file imports itself through a
\* chain, and without such a chain build, process and inspect succeed.
C30_RepeatedImportsAccepted ==
  /\ \A i, j \in 1..Len(walk.frames) :
       walk.frames[i].name = walk.frames[j].name => i = j
  /\ \A k \in 2..Len(walk.frames) :
       walk.frames[k].name \in WrittenIn(walk.frames[k - 1].name)
  /\ walk.status = "CyclicImportError" => HasCycle
  /\ (Ended /\ ~ HasCycle) =>
       /\ walk.status = "done"
       /\ walk.frames = <<>>
       /\ ~ IsErr(ast)
       /\ Process(ast, DictV(<<>>), env, files).err = ""
       /\ Inspect(ast, files).err = ""

\* The diamond: f1 and f2 are imported by the configuration, f3 by both.
C30_Witness ==
  /\ raw = ImportPair(1, 2)
  /\ files = DiamondFolder
  /\ walk.status = "done"
  /\ walk.trail = <<FileName(1), FileName(3), FileName(2), FileName(3)>>

====
